---- MODULE Spec2Model ----
(***************************************************************************)
(* Storage kernel of crio.rs: buffer pool manager with its frames, LRU-K   *)
(* replacer, page guards and access tracker; disk scheduler; disk manager  *)
(* with its extent allocator.                                              *)
(*                                                                         *)
(* Buffer pool: caller threads run the public operations of                *)
(* BufferPoolManager.  An operation is cut into steps where another thread *)
(* can observe or change what it works on between two of its critical      *)
(* sections (page-table mutex, replacer mutex, frame rw-lock).  A page's   *)
(* 4096 bytes are abstracted to one value: 0 is the all-zero page,         *)
(* 1..MaxVal are distinct non-zero contents.                               *)
(***************************************************************************)
EXTENDS Integers, Sequences, FiniteSets, TLC

(***************************************************************************)
(* Program constants                                                       *)
(***************************************************************************)
PREFETCH_LOOKAHEAD == 4
SEQUENTIAL_THRESHOLD == 3
LRUK_K == 2
EXTENT_SIZE == 8
PAGE_OFFSET_MASK == 16777215
QueueCapacity == 128
WORD == 65536
U16_MAX == 65535
BYTE == 256
HEADER_SIZE == 16
SLOT_SIZE == 4
TABLE_HEADER_SIZE == 36
TABLE_ENTRIES_OFFSET == 20
TABLE_ENTRY_SIZE == 12

(***************************************************************************)
(* Bounds of the model                                                     *)
(***************************************************************************)
PoolSize == 2
NumThreads == 2
MaxTimestamp == 5
PrefetchTimestamp == 4
MaxNumPages == 5
InitPages == 4
ConcTimestamp == 3
ConcPages == 3
MaxVal == 1
MaxGuards == 1
MaxPrefetch == 2
MaxFilePages == 16
MaxDeallocOffset == 1
NumTables == 2
NumCallers == 2
MaxFiles == 2
ReplFrames == 3
NumSubmitters == 2
MaxRequests == 2
NumWorkerPages == 1
ReplThreads == 2
MaxReplTs == 4
\* the order of the B+-tree, for DEFAULT_BTREE_ORDER
TreeOrder == 2
MaxTreePool == 3
NumHandles == 2
MaxKey == 6
MaxScanKey == 7
MaxReads == 1
MaxTreeTs == 90
MaxSpan == 1
MaxConcKey == 3
ConcTreeTs == 30
MaxDupKey == 2
\* the bytes of a page, for PAGE_SIZE
PageSize == 56
MaxPageOps == 5
MaxDirOps == 6
MaxSlot == 3
MaxTupleLen == 9
MaxTag == 2
NumLockThreads == 2
LockPoolSize == 2
LockInitPages == 2
LockMaxPages == 3
MaxHeld == 2
MaxLockCalls == 5

FrameIds == 0..(PoolSize - 1)
Threads == 1..NumThreads
PageIds == 0..(MaxNumPages + PREFETCH_LOOKAHEAD - 1)
Values == 0..MaxVal

VARIABLES
    frames,        \* frame id -> [page_id, pin_count, is_dirty, data]; page_id is <<>> (invalid) or <<p>>
    page_table,    \* HashMap<PageId, FrameId>: a function whose domain is the set of keys
    free_list,     \* LinkedList<FrameId>
    replacer,      \* [info: HashMap<FrameId, FrameAccessInfo>, num_evictable, ts]
    recent_accesses, \* AccessTracker
    disk,          \* page id -> value stored in segment file 0
    file_pages,    \* length of segment file 0 in pages
    num_pages,     \* DiskManager::num_pages
    th,            \* thread -> its position and locals
    guards,        \* thread -> sequence of the page guards it holds (at most one)
    last_written,  \* history: page id -> value left by the last released write guard
    flushed,       \* history: pages flushed successfully and not written since
    ts_limit,      \* the run ends when the replacer's clock reaches this bound
    bp_ret,        \* what the call that completed in the last step returned: [op, page, res]
    call_io,       \* the prefetch_pages or flush_all_pages call that completed in the last
                   \* step: [op, pages, io], the pages it loaded and the disk reads it
                   \* issued, or the pages it wrote and the disk writes it issued
    new_ids,       \* history: the page ids new_page has returned
    dm_file,       \* DiskManager: segment file 0 as its sequence of pages, "dir" or "zero"
    dm_num_pages,  \* DiskManager::num_pages
    extent_allocator, \* [table_extents, extent_info, next_extent_id]
    dm_status,     \* "open", or "invalid" when DiskManager::new returned InvalidDatabaseFile
    dm_ret,        \* the page offsets of file 0 returned by the last allocation
    ea_live,       \* history: the pages this ExtentAllocator covered when it was built or
                   \* has returned, less those deallocated since
    ea_returned,   \* history: table id -> the pages this ExtentAllocator returned to it
    dm_handed,     \* history: the pages an allocation returned and no deallocate_page
                   \* has taken back
    sq_queue,      \* DiskScheduler: the request channel
    sq_files,      \* the segment files that exist
    sq_disk,       \* page id -> 1 when a request wrote the page
    sq_dirty,      \* the pages held in frames: page id -> is_dirty of its frame
    sq_call,       \* caller -> its position in a synchronous helper and its outcome
    rp,            \* an LruKReplacer used on its own: [info, num_evictable, ts, max_frames]
    rp_pend,       \* thread -> <<>>, or <<frame, timestamp>> inside record_access
    wk_chan,       \* DiskScheduler with its worker: the requests in the channel, oldest first
    wk_shutdown,   \* the shutdown flag
    wk_pc,         \* the worker's position: "loop", "recv", "drain" or "exited"
    wk_sub,        \* submitting thread -> [pc, sent]: "wait" inside rx.recv(), requests sent
    wk_log,        \* history: the requests process_request has run, in order, with the
                   \* value each wrote or read
    wk_store,      \* page id -> value on disk
    wk_signal,     \* history: the requests whose callback has been sent the result
    wk_owner,      \* the DiskScheduler value: "alive", "dropping" (in drop) or "joined"
    wk_at_drop,    \* history: the requests in the channel when drop set the flag
    rp_ret,        \* the last step on rp: [op, res, hist], the victim evict returned and its history
    bt_pool,       \* the buffer pool under the B+-tree: [frames, page_table, free_list, replacer,
                   \* recent_accesses, disk, num_pages]
    bt_h,          \* handle -> the BTreeIndex value of a thread and the position of its call
    bt_inserted,   \* history: the keys whose insert has returned Ok
    bt_begun,      \* history: the keys whose insert has been called
    bt_reads,      \* history: the number of searches and scans called
    bt_again,      \* history: the keys whose insert has been called a second time
    bt_failed,     \* history: some call has returned an error
    bt_ret,        \* the call that returned last, with its result
    sp_page,       \* a slotted or table page: [kind, page_id, num_slots, free_space_start,
                   \* free_space_end, data], data the bytes of the page
    sp_prev,       \* the page before the call that returned last
    sp_ret,        \* the call on the page that returned last, with its result
    sp_live,       \* history: slot -> the tuple insert_tuple returned the slot for, until the
                   \* slot is deleted or updated
    sp_gone,       \* history: the slots deleted and not reused since
    sp_ops,        \* history: the number of calls on the page
    dp_page,       \* a directory page: [table_count, entries]
    dp_prev,       \* the directory page before the call that returned last
    dp_ret,        \* the call on the directory page that returned last, with its result
    dp_ops,        \* history: the number of calls on the directory page
    lk_mutex,      \* the holder of the page-table mutex, 0 for none
    lk_table,      \* the page table
    lk_free,       \* the free list
    lk_frames,     \* frame id -> [page_id, pin_count, is_dirty, repl]
    lk_guards,     \* thread -> the page guards it holds: [page_id, frame, write, locked, is_dirty]
    lk_th,         \* thread -> its position in the call it is making
    lk_num_pages,  \* DiskManager::num_pages
    lk_calls       \* history: the number of calls made

bpVars == <<frames, page_table, free_list, replacer, recent_accesses,
            disk, file_pages, num_pages, th, guards, last_written, flushed,
            ts_limit, bp_ret, call_io, new_ids>>

dmVars == <<dm_file, dm_num_pages, extent_allocator, dm_status, dm_ret, ea_live,
           ea_returned, dm_handed>>

sqVars == <<sq_queue, sq_files, sq_disk, sq_dirty, sq_call>>

rpVars == <<rp, rp_pend, rp_ret>>

wkVars == <<wk_chan, wk_shutdown, wk_pc, wk_sub, wk_log, wk_store, wk_signal, wk_owner,
            wk_at_drop>>

btVars == <<bt_pool, bt_h, bt_inserted, bt_begun, bt_reads, bt_failed, bt_ret, bt_again>>

pgVars == <<sp_page, sp_prev, sp_ret, sp_live, sp_gone, sp_ops, dp_page, dp_prev, dp_ret,
            dp_ops>>

lkVars == <<lk_mutex, lk_table, lk_free, lk_frames, lk_guards, lk_th, lk_num_pages,
            lk_calls>>

vars == <<bpVars, dmVars, sqVars, rpVars, wkVars, btVars, pgVars, lkVars>>

\* what the operations of one component leave alone
nonBpVars == <<lkVars, pgVars, dmVars, sqVars, rpVars, wkVars, btVars>>
nonDmVars == <<lkVars, pgVars, bpVars, sqVars, rpVars, wkVars, btVars>>
nonSqVars == <<lkVars, pgVars, bpVars, dmVars, rpVars, wkVars, btVars>>
nonRpVars == <<lkVars, pgVars, bpVars, dmVars, sqVars, wkVars, btVars>>
nonWkVars == <<lkVars, pgVars, bpVars, dmVars, sqVars, rpVars, btVars>>
nonBtVars == <<bpVars, dmVars, sqVars, rpVars, wkVars, pgVars, lkVars>>
nonPgVars == <<bpVars, dmVars, sqVars, rpVars, wkVars, btVars, lkVars>>
nonLkVars == <<bpVars, dmVars, sqVars, rpVars, wkVars, btVars, pgVars>>

\* the return values the model keeps are those of delete_page and new_page
NoRet == [op |-> "none", page |-> 0, res |-> "none"]
NoIo == [op |-> "none", pages |-> <<>>, io |-> <<>>]
\* a step that is not the return of one of them
NoReturn == bp_ret' = NoRet /\ call_io' = NoIo /\ UNCHANGED <<new_ids, ts_limit, nonBpVars>>

(***************************************************************************)
(* FrameHeader                                                             *)
(***************************************************************************)
NewFrame == [page_id |-> <<>>, pin_count |-> 0, is_dirty |-> FALSE, data |-> 0]

\* FrameHeader::pin
Pin(fr) == [fr EXCEPT !.pin_count = @ + 1]

\* FrameHeader::unpin: the new frame and Some(n) as <<n>>, None as <<>>
UnpinResult(fr) == IF fr.pin_count = 0 THEN <<>> ELSE <<fr.pin_count - 1>>
Unpin(fr) == IF fr.pin_count = 0 THEN fr ELSE [fr EXCEPT !.pin_count = @ - 1]

\* FrameHeader::reset without the final data.write().fill(0)
ResetMeta(fr) == [fr EXCEPT !.page_id = <<>>, !.pin_count = 0, !.is_dirty = FALSE]
\* FrameHeader::reset
Reset(fr) == NewFrame

(***************************************************************************)
(* HashMap helpers: a map is a function whose domain is its key set        *)
(***************************************************************************)
MapPut(m, k, v) == [x \in (DOMAIN m) \cup {k} |-> IF x = k THEN v ELSE m[x]]
MapDel(m, k) == [x \in (DOMAIN m) \ {k} |-> m[x]]
EmptyMap == [x \in {} |-> 0]

\* all orders in which a HashMap iteration may visit the key set S
Orders(S) == {o \in [1..Cardinality(S) -> S] : \A i, j \in 1..Cardinality(S) : i # j => o[i] # o[j]}

(***************************************************************************)
(* LruKReplacer                                                            *)
(***************************************************************************)
\* an access record that starts evictable
NewAccessInfoEvictable == [history |-> <<>>, is_evictable |-> TRUE]

\* FrameAccessInfo::new
NewAccessInfo == [history |-> <<>>, is_evictable |-> FALSE]
NewReplacer == [info |-> EmptyMap, num_evictable |-> 0, ts |-> 0, max_frames |-> PoolSize]

\* FrameAccessInfo::record_access: push_back, then pop_front while len > k
InfoRecordAccess(info, timestamp, k) ==
    LET h == Append(info.history, timestamp)
    IN [info EXCEPT !.history = IF Len(h) > k THEN SubSeq(h, Len(h) - k + 1, Len(h)) ELSE h]

\* FrameAccessInfo::k_distance: None is <<>>, Some(d) is <<d>>
KDistance(info, current_timestamp, k) ==
    IF Len(info.history) < k THEN <<>>
    ELSE <<current_timestamp - info.history[Len(info.history) - k + 1]>>

\* FrameAccessInfo::earliest_timestamp
EarliestTimestamp(info) == IF info.history = <<>> THEN <<>> ELSE <<info.history[1]>>

\* a match that, of two finite k-distances, picks the smaller one
ShouldReplaceSmaller(victim_k_dist, victim_earliest_ts, k_dist, earliest_ts) ==
    IF victim_k_dist = <<>> /\ k_dist # <<>> THEN FALSE
    ELSE IF victim_k_dist # <<>> /\ k_dist = <<>> THEN TRUE
    ELSE IF victim_k_dist = <<>> /\ k_dist = <<>> THEN
        IF victim_earliest_ts # <<>> /\ earliest_ts # <<>> THEN earliest_ts[1] < victim_earliest_ts[1]
        ELSE IF victim_earliest_ts = <<>> /\ earliest_ts # <<>> THEN TRUE
        ELSE FALSE
    ELSE k_dist[1] < victim_k_dist[1]

\* the match in LruKReplacer::evict deciding whether the candidate replaces the victim
ShouldReplace(victim_k_dist, victim_earliest_ts, k_dist, earliest_ts) ==
    IF victim_k_dist = <<>> /\ k_dist # <<>> THEN FALSE
    ELSE IF victim_k_dist # <<>> /\ k_dist = <<>> THEN TRUE
    ELSE IF victim_k_dist = <<>> /\ k_dist = <<>> THEN
        IF victim_earliest_ts # <<>> /\ earliest_ts # <<>> THEN earliest_ts[1] < victim_earliest_ts[1]
        ELSE IF victim_earliest_ts = <<>> /\ earliest_ts # <<>> THEN TRUE
        ELSE FALSE
    ELSE k_dist[1] > victim_k_dist[1]

\* the loop of LruKReplacer::evict over the frames in iteration order `order`,
\* from position i with the current victim (<<>> or <<frame>>)
RECURSIVE EvictScan(_, _, _, _, _)
EvictScan(info, order, i, current_ts, victim) ==
    IF i > Len(order) THEN victim
    ELSE LET f == order[i]
             fi == info[f]
             k_dist == KDistance(fi, current_ts, LRUK_K)
             earliest == EarliestTimestamp(fi)
             replace == IF victim = <<>> THEN TRUE
                        ELSE ShouldReplace(KDistance(info[victim[1]], current_ts, LRUK_K),
                                           EarliestTimestamp(info[victim[1]]), k_dist, earliest)
         IN IF ~fi.is_evictable THEN EvictScan(info, order, i + 1, current_ts, victim)
            ELSE EvictScan(info, order, i + 1, current_ts, IF replace THEN <<f>> ELSE victim)

\* LruKReplacer::evict: the victims (<<>> for None) it may return
EvictVictims(rep) ==
    IF rep.num_evictable = 0 THEN {<<>>}
    ELSE {EvictScan(rep.info, o, 1, rep.ts, <<>>) : o \in Orders(DOMAIN rep.info)}

\* an evict that untracks its victim and leaves num_evictable as it was
EvictApplyKeepsCount(rep, victim) ==
    IF victim = <<>> THEN rep
    ELSE [rep EXCEPT !.info = MapDel(@, victim[1])]

\* LruKReplacer::evict: the replacer after it returned `victim`
EvictApply(rep, victim) ==
    IF victim = <<>> THEN rep
    ELSE [rep EXCEPT !.info = MapDel(@, victim[1]), !.num_evictable = @ - 1]

\* LruKReplacer::record_access
RecordAccess(rep, frame_id) ==
    IF frame_id >= rep.max_frames THEN rep
    ELSE LET old == IF frame_id \in DOMAIN rep.info THEN rep.info[frame_id] ELSE NewAccessInfo
         IN [rep EXCEPT !.ts = @ + 1,
                        !.info = MapPut(@, frame_id, InfoRecordAccess(old, rep.ts, LRUK_K))]

\* set_evictable that ignores a call with is_evictable = false
SetEvictableNoClear(rep, frame_id, is_evictable) ==
    IF frame_id >= rep.max_frames \/ ~is_evictable THEN rep
    ELSE IF frame_id \in DOMAIN rep.info THEN
        IF ~rep.info[frame_id].is_evictable
        THEN [rep EXCEPT !.num_evictable = @ + 1,
                         !.info = MapPut(@, frame_id, [rep.info[frame_id] EXCEPT !.is_evictable = TRUE])]
        ELSE rep
    ELSE [rep EXCEPT !.num_evictable = @ + 1,
                     !.info = MapPut(@, frame_id, [NewAccessInfo EXCEPT !.is_evictable = TRUE])]

\* LruKReplacer::set_evictable
SetEvictable(rep, frame_id, is_evictable) ==
    IF frame_id >= rep.max_frames THEN rep
    ELSE IF frame_id \in DOMAIN rep.info THEN
        IF rep.info[frame_id].is_evictable # is_evictable
        THEN [rep EXCEPT !.num_evictable = IF is_evictable THEN @ + 1 ELSE @ - 1,
                         !.info = MapPut(@, frame_id, [rep.info[frame_id] EXCEPT !.is_evictable = is_evictable])]
        ELSE rep
    ELSE IF is_evictable
        THEN [rep EXCEPT !.num_evictable = @ + 1,
                         !.info = MapPut(@, frame_id, [NewAccessInfo EXCEPT !.is_evictable = TRUE])]
        ELSE rep

\* a remove that stops the frame being evictable and keeps it tracked
ReplacerRemoveKeepsEntry(rep, frame_id) ==
    IF frame_id \in DOMAIN rep.info /\ rep.info[frame_id].is_evictable
    THEN [rep EXCEPT !.info = MapPut(@, frame_id, [rep.info[frame_id] EXCEPT !.is_evictable = FALSE]),
                     !.num_evictable = @ - 1]
    ELSE rep

\* LruKReplacer::remove
ReplacerRemove(rep, frame_id) ==
    IF frame_id \in DOMAIN rep.info
    THEN [rep EXCEPT !.info = MapDel(@, frame_id),
                     !.num_evictable = IF rep.info[frame_id].is_evictable THEN @ - 1 ELSE @]
    ELSE rep

(***************************************************************************)
(* AccessTracker                                                           *)
(***************************************************************************)
\* AccessTracker::record
TrackerRecord(recent, page_id) ==
    Append(IF Len(recent) >= SEQUENTIAL_THRESHOLD + 1 THEN Tail(recent) ELSE recent, page_id)

\* AccessTracker::is_sequential
IsSequential(recent) ==
    /\ Len(recent) >= SEQUENTIAL_THRESHOLD
    /\ \A i \in 2..Len(recent) : recent[i] = recent[i - 1] + 1


(***************************************************************************)
(* Buffer pool: state after DiskManager::new on a database of InitPages    *)
(* pages and BufferPoolManager::new                                        *)
(***************************************************************************)
IdleThread == [pc |-> "idle", op |-> "none", sub |-> "none", page |-> 0, frame |-> 0,
               victim |-> 0, old_page |-> <<>>, gi |-> 0, todo |-> <<>>, got |-> <<>>]

InitPoolOn(pages, limit, stored) ==
    /\ frames = [f \in FrameIds |-> NewFrame]
    /\ page_table = EmptyMap
    /\ free_list = [i \in 1..PoolSize |-> i - 1]
    /\ replacer = NewReplacer
    /\ recent_accesses = <<>>
    /\ num_pages = pages
    /\ file_pages = pages
    /\ disk = stored
    /\ th = [t \in Threads |-> IdleThread]
    /\ guards = [t \in Threads |-> <<>>]
    /\ last_written = [p \in PageIds |-> 0]
    /\ flushed = {}
    /\ ts_limit = limit
    /\ bp_ret = NoRet
    /\ call_io = NoIo
    /\ new_ids = {}

\* a database whose pages hold zeros
InitPool(pages, limit) == InitPoolOn(pages, limit, [p \in PageIds |-> 0])

\* the frame rw-lock (FrameHeader::data) as held by the live guards
WriteLocked(f) == \E t \in Threads : \E i \in 1..Len(guards[t]) :
                    guards[t][i].frame = f /\ guards[t][i].locked /\ guards[t][i].write
ReadLocked(f) == \E t \in Threads : \E i \in 1..Len(guards[t]) :
                    guards[t][i].frame = f /\ guards[t][i].locked /\ ~guards[t][i].write
CanRead(f) == ~WriteLocked(f)
CanWrite(f) == ~WriteLocked(f) /\ ~ReadLocked(f)

\* DiskManager::write_page on file 0
DiskWrite(d, page_id, v) == [d EXCEPT ![page_id] = v]
FileAfterWrite(n, page_id) == IF page_id + 1 > n THEN page_id + 1 ELSE n
DiskReadZero(d, n, page_id) == 0

\* DiskManager::read_page on file 0: bytes past the end of the file read as zeros
DiskRead(d, n, page_id) == IF page_id < n THEN d[page_id] ELSE 0

Finish(t) == th' = [th EXCEPT ![t] = IdleThread]

(***************************************************************************)
(* BufferPoolManager::get_free_frame, called by new_page, fetch_page and   *)
(* prefetch_pages                                                          *)
(***************************************************************************)
\* the caller `me` after get_free_frame returned Ok(f)
AfterFrame(me, f) ==
    LET c == [me EXCEPT !.victim = 0, !.old_page = <<>>]
    IN IF me.sub = "prefetch" THEN
           [c EXCEPT !.got = Append(@, f),
                     !.pc = IF Len(me.got) + 1 = Len(me.todo) THEN "pf_load" ELSE "gff"]
       ELSE IF me.op = "new_page" THEN [c EXCEPT !.pc = "np_load", !.frame = f]
       ELSE [c EXCEPT !.pc = "load", !.frame = f]

\* the caller `me` after get_free_frame returned Err(BufferPoolFull): prefetch_pages
\* stops collecting frames, new_page and fetch_page return the error
AfterNoFrame(me) ==
    IF me.sub = "prefetch" THEN [me EXCEPT !.pc = "pf_load"]
    ELSE IdleThread

\* get_free_frame for the caller `me`: free_list.pop_front(); else replacer.evict(),
\* old_page_id = frame.page_id(), and the write-back of a dirty victim
GetFreeFrameFrom(t, me) ==
    IF free_list # <<>>
    THEN /\ free_list' = Tail(free_list)
         /\ th' = [th EXCEPT ![t] = AfterFrame(me, Head(free_list))]
         /\ UNCHANGED <<replacer, disk, file_pages>>
    ELSE \E victim \in EvictVictims(replacer) :
         /\ replacer' = EvictApply(replacer, victim)
         /\ UNCHANGED free_list
         /\ IF victim = <<>>
            THEN /\ th' = [th EXCEPT ![t] = AfterNoFrame(me)]
                 /\ UNCHANGED <<disk, file_pages>>
            ELSE LET f == victim[1]
                     fr == frames[f]
                 IN /\ fr.is_dirty => CanRead(f)
                    /\ th' = [th EXCEPT ![t] = [me EXCEPT !.pc = "reset", !.victim = f,
                                                          !.old_page = fr.page_id]]
                    /\ IF fr.is_dirty /\ fr.page_id # <<>>
                       THEN /\ disk' = DiskWrite(disk, fr.page_id[1], fr.data)
                            /\ file_pages' = FileAfterWrite(file_pages, fr.page_id[1])
                       ELSE UNCHANGED <<disk, file_pages>>

\* get_free_frame returns Err(BufferPoolFull) in the current state: the free list is
\* empty and replacer.evict() returns None
GetFreeFrameFails == free_list = <<>> /\ <<>> \in EvictVictims(replacer)

\* a later get_free_frame call of prefetch_pages' frame-collecting loop
GetFreeFrame(t) ==
    /\ th[t].pc = "gff"
    /\ GetFreeFrameFrom(t, th[t])
    /\ UNCHANGED <<frames, page_table, recent_accesses, num_pages, guards, last_written,
                   flushed>>
    /\ NoReturn

\* page_table.lock().remove(&old_page_id); frame.reset()
EvictReset(t) ==
    /\ th[t].pc = "reset"
    /\ LET f == th[t].victim
       IN /\ page_table' = IF th[t].old_page = <<>> THEN page_table
                           ELSE MapDel(page_table, th[t].old_page[1])
          /\ IF CanWrite(f)
             THEN /\ frames' = [frames EXCEPT ![f] = Reset(@)]
                  /\ th' = [th EXCEPT ![t] = AfterFrame(th[t], f)]
             ELSE /\ frames' = [frames EXCEPT ![f] = ResetMeta(@)]
                  /\ th' = [th EXCEPT ![t].pc = "fill"]
    /\ UNCHANGED <<free_list, replacer, recent_accesses, disk, file_pages, num_pages,
                   guards, last_written, flushed>>
    /\ NoReturn

\* the end of frame.reset(): data.write().fill(0), once the frame lock is free
EvictFill(t) ==
    /\ th[t].pc = "fill"
    /\ CanWrite(th[t].victim)
    /\ frames' = [frames EXCEPT ![th[t].victim].data = 0]
    /\ th' = [th EXCEPT ![t] = AfterFrame(th[t], th[t].victim)]
    /\ UNCHANGED <<page_table, free_list, replacer, recent_accesses, disk, file_pages,
                   num_pages, guards, last_written, flushed>>
    /\ NoReturn

(***************************************************************************)
(* BufferPoolManager::new_page                                             *)
(***************************************************************************)
\* new_page: get_free_frame()
NewPage(t) ==
    /\ th[t].pc = "idle"
    /\ num_pages < MaxNumPages
    /\ replacer.ts < ts_limit
    /\ GetFreeFrameFrom(t, [th[t] EXCEPT !.op = "new_page"])
    /\ UNCHANGED <<frames, page_table, recent_accesses, num_pages, guards, last_written,
                   flushed>>
    /\ NoReturn

\* DiskManager::allocate_page (num_pages.fetch_add(1), write_page of zeros);
\* frame.reset(); frame.set_page_id(page_id); page_table.insert;
\* replacer.record_access; replacer.set_evictable(frame_id, true); Ok(page_id)
NewPageLoad(t) ==
    /\ th[t].pc = "np_load"
    /\ CanWrite(th[t].frame)
    /\ replacer.ts < ts_limit
    /\ num_pages' = num_pages + 1
    /\ disk' = DiskWrite(disk, num_pages, 0)
    /\ file_pages' = FileAfterWrite(file_pages, num_pages)
    /\ frames' = [frames EXCEPT ![th[t].frame] = [Reset(@) EXCEPT !.page_id = <<num_pages>>]]
    /\ page_table' = MapPut(page_table, num_pages, th[t].frame)
    /\ replacer' = SetEvictable(RecordAccess(replacer, th[t].frame), th[t].frame, TRUE)
    /\ Finish(t)
    /\ bp_ret' = [op |-> "new_page", page |-> num_pages, res |-> "Ok"]
    /\ new_ids' = new_ids \cup {num_pages}
    /\ call_io' = NoIo
    /\ UNCHANGED <<free_list, recent_accesses, guards, last_written, flushed>>
    /\ UNCHANGED <<ts_limit, nonBpVars>>

(***************************************************************************)
(* BufferPoolManager::prefetch_pages                                       *)
(***************************************************************************)
\* the pages of start..start+n-1 that are not in the page table, ascending
RECURSIVE PagesToFetch(_, _, _)
PagesToFetch(pt, start, n) ==
    IF n = 0 THEN <<>>
    ELSE IF start \in DOMAIN pt THEN PagesToFetch(pt, start + 1, n - 1)
    ELSE <<start>> \o PagesToFetch(pt, start + 1, n - 1)

\* prefetch_pages returns Ok(Len(pages)) after the disk reads io
PrefetchReturns(pages, io) ==
    /\ bp_ret' = NoRet
    /\ call_io' = [op |-> "prefetch", pages |-> pages, io |-> io]
    /\ UNCHANGED <<new_ids, ts_limit, nonBpVars>>

\* the caller after prefetch_pages returned: a fetch goes on to build its guard
AfterPrefetch(me) ==
    IF me.op = "prefetch" THEN IdleThread
    ELSE [me EXCEPT !.pc = "take_lock", !.sub = "none", !.todo = <<>>, !.got = <<>>]

\* prefetch_pages called by the user: pages_to_fetch is collected under the page-table
\* mutex, then the first get_free_frame()
PrefetchPages(t, start, n) ==
    /\ th[t].pc = "idle"
    /\ 1 <= start /\ start < num_pages
    /\ replacer.ts < ts_limit
    /\ LET todo == PagesToFetch(page_table, start, n)
       IN IF todo = <<>>
          THEN /\ UNCHANGED <<th, free_list, replacer, disk, file_pages>>
               /\ PrefetchReturns(<<>>, <<>>)
          ELSE /\ GetFreeFrameFrom(t, [th[t] EXCEPT !.op = "prefetch", !.sub = "prefetch",
                                                    !.todo = todo])
               /\ NoReturn
    /\ UNCHANGED <<frames, page_table, recent_accesses, num_pages, guards, last_written,
                   flushed>>

\* the distribution loop of prefetch_pages: set_page_id, copy_from, set_dirty(false),
\* page_table.insert, record_access, set_evictable(true) for each page
RECURSIVE Distribute(_, _, _, _, _, _, _)
Distribute(fs, pt, rep, d, n, todo, got) ==
    IF got = <<>> THEN [frames |-> fs, page_table |-> pt, replacer |-> rep]
    ELSE LET page_id == Head(todo)
             f == Head(got)
         IN Distribute([fs EXCEPT ![f].page_id = <<page_id>>,
                                  ![f].data = DiskRead(d, n, page_id),
                                  ![f].is_dirty = FALSE],
                       MapPut(pt, page_id, f),
                       SetEvictable(RecordAccess(rep, f), f, TRUE),
                       d, n, Tail(todo), Tail(got))

\* the rest of prefetch_pages: pages_to_fetch cut to the frames obtained, one bulk
\* read, then the distribution loop under the page-table mutex
PrefetchLoad(t) ==
    /\ th[t].pc = "pf_load"
    /\ IF th[t].got = <<>>
       THEN /\ UNCHANGED <<frames, page_table, replacer>>
            /\ PrefetchReturns(<<>>, <<>>)
       ELSE /\ replacer.ts + Len(th[t].got) <= ts_limit
            /\ \A i \in 1..Len(th[t].got) : CanWrite(th[t].got[i])
            /\ LET pages == SubSeq(th[t].todo, 1, Len(th[t].got))
                   first_page == pages[1]
                   last_page == pages[Len(pages)]
                   r == Distribute(frames, page_table, replacer, disk, file_pages,
                                   pages, th[t].got)
               IN /\ frames' = r.frames
                  /\ page_table' = r.page_table
                  /\ replacer' = r.replacer
                  /\ PrefetchReturns(pages, << <<first_page, last_page - first_page + 1>> >>)
    /\ th' = [th EXCEPT ![t] = AfterPrefetch(th[t])]
    /\ UNCHANGED <<free_list, recent_accesses, disk, file_pages, num_pages, guards,
                   last_written, flushed>>

(***************************************************************************)
(* BufferPoolManager::checked_read_page / checked_write_page / fetch_page  *)
(***************************************************************************)
\* the pages a caller asks for: data pages that have been allocated
Fetchable(p) == 1 <= p /\ p < num_pages

\* fetch_page up to its first return or page-table removal.  Hit: frame.pin(),
\* record_access, set_evictable(false) under the page-table mutex.  Miss:
\* get_free_frame()
FetchPage(t, p, write) ==
    /\ th[t].pc = "idle"
    /\ Len(guards[t]) < MaxGuards
    /\ Fetchable(p)
    /\ replacer.ts < ts_limit
    /\ LET me == [th[t] EXCEPT !.op = IF write THEN "write" ELSE "read", !.page = p]
       IN IF p \in DOMAIN page_table
          THEN LET f == page_table[p]
               IN /\ frames' = [frames EXCEPT ![f] = Pin(@)]
                  /\ replacer' = SetEvictable(RecordAccess(replacer, f), f, FALSE)
                  /\ th' = [th EXCEPT ![t] = [me EXCEPT !.pc = "take_lock", !.frame = f]]
                  /\ UNCHANGED <<free_list, disk, file_pages>>
          ELSE /\ GetFreeFrameFrom(t, me)
               /\ UNCHANGED frames
    /\ UNCHANGED <<page_table, recent_accesses, num_pages, guards, last_written, flushed>>
    /\ NoReturn

\* the miss path once the frame is there: schedule_read_sync; set_page_id; copy_from;
\* set_dirty(false); pin; page_table.insert; record_access; set_evictable(false);
\* maybe_prefetch: tracker.record, tracker.is_sequential and the start of
\* prefetch_pages(page_id + 1, PREFETCH_LOOKAHEAD)
FetchLoad(t) ==
    /\ th[t].pc = "load"
    /\ CanWrite(th[t].frame)
    /\ replacer.ts < ts_limit
    /\ LET f == th[t].frame
           p == th[t].page
           pt == MapPut(page_table, p, f)
           recent == TrackerRecord(recent_accesses, p)
           todo == PagesToFetch(pt, p + 1, PREFETCH_LOOKAHEAD)
       IN /\ frames' = [frames EXCEPT ![f] =
                          [Pin(@) EXCEPT !.page_id = <<p>>, !.is_dirty = FALSE,
                                         !.data = DiskRead(disk, file_pages, p)]]
          /\ page_table' = pt
          /\ replacer' = SetEvictable(RecordAccess(replacer, f), f, FALSE)
          /\ recent_accesses' = recent
          /\ th' = [th EXCEPT ![t] = IF IsSequential(recent) /\ todo # <<>>
                                     THEN [th[t] EXCEPT !.pc = "gff", !.sub = "prefetch",
                                                        !.todo = todo]
                                     ELSE [th[t] EXCEPT !.pc = "take_lock"]]
    /\ UNCHANGED <<free_list, disk, file_pages, num_pages, guards, last_written, flushed>>
    /\ NoReturn

\* ReadPageGuard::new / WritePageGuard::new: frame.data.read() / frame.data.write()
TakeLock(t) ==
    /\ th[t].pc = "take_lock"
    /\ LET f == th[t].frame
           w == th[t].op = "write"
       IN /\ IF w THEN CanWrite(f) ELSE CanRead(f)
          /\ guards' = [guards EXCEPT ![t] = Append(@,
                          [page_id |-> th[t].page, frame |-> f, write |-> w, locked |-> TRUE,
                           is_dirty |-> FALSE])]
    /\ Finish(t)
    /\ UNCHANGED <<frames, page_table, free_list, replacer, recent_accesses, disk,
                   file_pages, num_pages, last_written, flushed>>
    /\ NoReturn

(***************************************************************************)
(* BufferPoolManager::delete_page                                          *)
(***************************************************************************)
\* delete_page, under the page-table mutex.  A page that is not in the page table:
\* Ok(false).  A pinned page is put back: Err(PageStillPinned).  Else frame.reset(),
\* replacer.remove, free_list.push_back, DiskManager::deallocate_page, Ok(true).
\* The writes the page had received are discarded with it.
DeletePage(t, p) ==
    /\ th[t].pc = "idle"
    /\ IF p \notin DOMAIN page_table
       THEN /\ bp_ret' = [op |-> "delete_page", page |-> p, res |-> "Ok(false)"]
            /\ UNCHANGED <<frames, page_table, replacer, free_list, last_written, flushed>>
       ELSE LET f == page_table[p]
            IN IF frames[f].pin_count > 0
               THEN /\ bp_ret' = [op |-> "delete_page", page |-> p, res |-> "PageStillPinned"]
                    /\ UNCHANGED <<frames, page_table, replacer, free_list, last_written,
                                   flushed>>
               ELSE /\ CanWrite(f)
                    /\ page_table' = MapDel(page_table, p)
                    /\ frames' = [frames EXCEPT ![f] = Reset(@)]
                    /\ replacer' = ReplacerRemove(replacer, f)
                    /\ free_list' = Append(free_list, f)
                    /\ last_written' = [last_written EXCEPT ![p] = DiskRead(disk, file_pages, p)]
                    /\ flushed' = flushed \ {p}
                    /\ bp_ret' = [op |-> "delete_page", page |-> p, res |-> "Ok(true)"]
    /\ call_io' = NoIo
    /\ UNCHANGED <<recent_accesses, disk, file_pages, num_pages, th, guards>>
    /\ UNCHANGED <<new_ids, ts_limit, nonBpVars>>

(***************************************************************************)
(* BufferPoolManager::flush_page / flush_all_pages                         *)
(***************************************************************************)
\* the pages on which a write guard has called data_mut and whose drop is not complete
BeingWritten == {p \in PageIds : \E t \in Threads : \E i \in 1..Len(guards[t]) :
                    guards[t][i].page_id = p /\ guards[t][i].is_dirty}

\* flush_page on a resident page: copy_to, schedule_write_sync, set_dirty(false), Ok(true)
FlushPage(t, p) ==
    /\ th[t].pc = "idle"
    /\ p \in DOMAIN page_table
    /\ LET f == page_table[p]
       IN /\ CanRead(f)
          /\ disk' = DiskWrite(disk, p, frames[f].data)
          /\ file_pages' = FileAfterWrite(file_pages, p)
          /\ frames' = [frames EXCEPT ![f].is_dirty = FALSE]
    /\ flushed' = IF p \in BeingWritten THEN flushed ELSE flushed \cup {p}
    /\ UNCHANGED <<page_table, free_list, replacer, recent_accesses, num_pages, th, guards,
                   last_written>>
    /\ NoReturn

\* the (page, frame) pairs flush_all_pages collects
DirtyPages == {p \in DOMAIN page_table : frames[page_table[p]].is_dirty}

Max(S) == CHOOSE x \in S : \A y \in S : y <= x
Min(S) == CHOOSE x \in S : \A y \in S : x <= y

\* dirty_pages.sort_by_key(|(pid, _)| pid.as_u32())
RECURSIVE SortByPageId(_)
SortByPageId(S) == IF S = {} THEN <<>> ELSE <<Min(S)>> \o SortByPageId(S \ {Min(S)})

RunNeverContinues(dirty_pages, i) == FALSE

\* the condition of the inner loop: the next dirty page follows the one at index i
RunContinues(dirty_pages, i) ==
    i + 1 <= Len(dirty_pages) /\ dirty_pages[i + 1] = dirty_pages[i] + 1

\* the inner loop of flush_all_pages: the index of the last page of the run of
\* consecutive ids that starts at index i
RECURSIVE RunEnd(_, _)
RunEnd(dirty_pages, i) ==
    IF RunContinues(dirty_pages, i) THEN RunEnd(dirty_pages, i + 1) ELSE i

\* the outer loop of flush_all_pages from index i: one schedule_write_sync
\* (count = 1) or one schedule_write_pages_sync per run, as <<start_page, count>>
RECURSIVE FlushRuns(_, _)
FlushRuns(dirty_pages, i) ==
    IF i > Len(dirty_pages) THEN <<>>
    ELSE LET e == RunEnd(dirty_pages, i)
         IN << <<dirty_pages[i], e - i + 1>> >> \o FlushRuns(dirty_pages, e + 1)

\* flush_all_pages: every dirty page of the page table is written (single write or
\* bulk write per run of consecutive ids) and its frame's dirty flag cleared; Ok(())
FlushAllPages(t) ==
    /\ th[t].pc = "idle"
    /\ \A p \in DirtyPages : CanRead(page_table[p])
    /\ disk' = [p \in PageIds |-> IF p \in DirtyPages THEN frames[page_table[p]].data
                                 ELSE disk[p]]
    /\ file_pages' = IF DirtyPages = {} THEN file_pages
                     ELSE FileAfterWrite(file_pages, Max(DirtyPages))
    /\ frames' = [f \in FrameIds |-> IF \E p \in DirtyPages : page_table[p] = f
                                     THEN [frames[f] EXCEPT !.is_dirty = FALSE]
                                     ELSE frames[f]]
    /\ flushed' = flushed \cup ((DOMAIN page_table) \ BeingWritten)
    /\ bp_ret' = NoRet
    /\ call_io' = [op |-> "flush_all", pages |-> SortByPageId(DirtyPages),
                   io |-> FlushRuns(SortByPageId(DirtyPages), 1)]
    /\ UNCHANGED <<page_table, free_list, replacer, recent_accesses, num_pages, th, guards,
                   last_written>>
    /\ UNCHANGED <<new_ids, ts_limit, nonBpVars>>

(***************************************************************************)
(* ReadPageGuard / WritePageGuard                                          *)
(***************************************************************************)
RemoveAt(seq, i) == SubSeq(seq, 1, i - 1) \o SubSeq(seq, i + 1, Len(seq))

\* WritePageGuard::data_mut followed by a store through the returned slice
DataMut(t, i, v) ==
    /\ th[t].pc = "idle"
    /\ i \in 1..Len(guards[t])
    /\ guards[t][i].write
    /\ frames' = [frames EXCEPT ![guards[t][i].frame].data = v]
    /\ guards' = [guards EXCEPT ![t][i].is_dirty = TRUE]
    /\ flushed' = flushed \ {guards[t][i].page_id}
    /\ UNCHANGED <<page_table, free_list, replacer, recent_accesses, disk, file_pages,
                   num_pages, th, last_written>>
    /\ NoReturn

\* the release callback built in checked_read_page / checked_write_page
ReleaseFrames(fs, pt, pid, is_dirty) ==
    IF pid \in DOMAIN pt
    THEN [fs EXCEPT ![pt[pid]] = Unpin(IF is_dirty THEN [@ EXCEPT !.is_dirty = TRUE] ELSE @)]
    ELSE fs
ReleaseReplacer(fs, pt, rep, pid) ==
    IF pid \in DOMAIN pt /\ UnpinResult(fs[pt[pid]]) = <<0>>
    THEN SetEvictable(rep, pt[pid], TRUE)
    ELSE rep

\* Drop for ReadPageGuard: the release callback, then the read lock is released
DropReadGuard(t, i) ==
    /\ th[t].pc = "idle"
    /\ i \in 1..Len(guards[t])
    /\ ~guards[t][i].write
    /\ frames' = ReleaseFrames(frames, page_table, guards[t][i].page_id, guards[t][i].is_dirty)
    /\ replacer' = ReleaseReplacer(frames, page_table, replacer, guards[t][i].page_id)
    /\ guards' = [guards EXCEPT ![t] = RemoveAt(@, i)]
    /\ UNCHANGED <<page_table, free_list, recent_accesses, disk, file_pages, num_pages, th,
                   last_written, flushed>>
    /\ NoReturn

\* Drop for WritePageGuard, first half: data_guard.take() releases the write lock
DropWriteGuard(t, i) ==
    /\ th[t].pc = "idle"
    /\ i \in 1..Len(guards[t])
    /\ guards[t][i].write
    /\ guards' = [guards EXCEPT ![t][i].locked = FALSE]
    /\ last_written' = IF guards[t][i].is_dirty
                       THEN [last_written EXCEPT ![guards[t][i].page_id] =
                                                     frames[guards[t][i].frame].data]
                       ELSE last_written
    /\ th' = [th EXCEPT ![t].pc = "drop_cb", ![t].op = "drop", ![t].gi = i]
    /\ UNCHANGED <<frames, page_table, free_list, replacer, recent_accesses, disk,
                   file_pages, num_pages, flushed>>
    /\ NoReturn

\* Drop for WritePageGuard, second half: the release callback
DropWriteCallback(t) ==
    /\ th[t].pc = "drop_cb"
    /\ LET g == guards[t][th[t].gi]
       IN /\ frames' = ReleaseFrames(frames, page_table, g.page_id, g.is_dirty)
          /\ replacer' = ReleaseReplacer(frames, page_table, replacer, g.page_id)
    /\ guards' = [guards EXCEPT ![t] = RemoveAt(@, th[t].gi)]
    /\ Finish(t)
    /\ UNCHANGED <<page_table, free_list, recent_accesses, disk, file_pages, num_pages,
                   last_written, flushed>>
    /\ NoReturn

(***************************************************************************)
(* B+-tree node pages (btree_page.rs).  A page image is its header fields  *)
(* and, from HEADER_SIZE on, its body as 16-bit little-endian words: a key *)
(* or a child is two words, a RecordId three.  A u32 is its pair of words. *)
(***************************************************************************)
ToLe(v) == <<v % WORD, v \div WORD>>
FromLe(w) == w[1] + WORD * w[2]

\* u32::MAX, the None of next, prev and parent
INVALID_PAGE == <<U16_MAX, U16_MAX>>

\* Option<PageId> from and to the stored u32
PageOpt(w) == IF w = INVALID_PAGE THEN <<>> ELSE <<FromLe(w)>>
OptRaw(opt) == IF opt = <<>> THEN INVALID_PAGE ELSE ToLe(opt[1])

\* the words of a page body the model keeps: room for every key with its value or child
BodyWords == 5 * (MaxScanKey + 2)

\* a page of zero bytes, read as a node
ZeroImage == [page_id |-> <<0, 0>>, is_leaf |-> 0, num_keys |-> 0,
              next_page_id |-> <<0, 0>>, prev_page_id |-> <<0, 0>>,
              parent_page_id |-> <<0, 0>>, body |-> [i \in 1..BodyWords |-> 0]]

\* the directory page after DirectoryPage::init, read as a node: magic "CRIO" at 0,
\* version 1 at 4, page count 1 at 8, free list head None at 12, table count 0 at 16
DirectoryImage == [ZeroImage EXCEPT !.page_id = <<18767, 17234>>, !.is_leaf = 1,
                                    !.next_page_id = <<1, 0>>,
                                    !.prev_page_id = INVALID_PAGE]

\* BTreeNode::init
NodeInit(page_id, is_leaf) ==
    [ZeroImage EXCEPT !.page_id = ToLe(page_id), !.is_leaf = IF is_leaf THEN 1 ELSE 0,
                      !.next_page_id = INVALID_PAGE, !.prev_page_id = INVALID_PAGE,
                      !.parent_page_id = INVALID_PAGE]

\* BTreeNode::is_leaf
IsLeaf(node) == node.is_leaf = 1

\* BTreeNode::get_key / set_key: offset HEADER_SIZE + index * KEY_SIZE
GetKey(node, index) == FromLe(<<node.body[2 * index + 1], node.body[2 * index + 2]>>)
SetKey(node, index, key) ==
    [node EXCEPT !.body[2 * index + 1] = ToLe(key)[1], !.body[2 * index + 2] = ToLe(key)[2]]

\* BTreeNode::get_value_at / set_value_at: offset HEADER_SIZE + num_keys * KEY_SIZE +
\* index * VALUE_SIZE
GetValueAt(node, index, num_keys) ==
    [page_id |-> FromLe(<<node.body[2 * num_keys + 3 * index + 1],
                          node.body[2 * num_keys + 3 * index + 2]>>),
     slot_id |-> node.body[2 * num_keys + 3 * index + 3]]
SetValueAt(node, index, value, num_keys) ==
    [node EXCEPT !.body[2 * num_keys + 3 * index + 1] = ToLe(value.page_id)[1],
                 !.body[2 * num_keys + 3 * index + 2] = ToLe(value.page_id)[2],
                 !.body[2 * num_keys + 3 * index + 3] = value.slot_id]

\* BTreeNode::get_child_at / set_child_at: offset HEADER_SIZE + num_keys * KEY_SIZE +
\* index * CHILD_SIZE
GetChildAt(node, index, num_keys) ==
    FromLe(<<node.body[2 * num_keys + 2 * index + 1], node.body[2 * num_keys + 2 * index + 2]>>)
SetChildAt(node, index, child, num_keys) ==
    [node EXCEPT !.body[2 * num_keys + 2 * index + 1] = ToLe(child)[1],
                 !.body[2 * num_keys + 2 * index + 2] = ToLe(child)[2]]

\* BTreeNode::get_value / get_child
GetValue(node, index) == GetValueAt(node, index, node.num_keys)
GetChild(node, index) == GetChildAt(node, index, node.num_keys)

\* the loop of search_key
RECURSIVE SearchLoop(_, _, _, _)
SearchLoop(node, key, left, right) ==
    IF left < right
    THEN LET mid == left + (right - left) \div 2
         IN IF GetKey(node, mid) < key THEN SearchLoop(node, key, mid + 1, right)
            ELSE SearchLoop(node, key, left, mid)
    ELSE left

\* BTreeNode::search_key: the first index whose key is >= key
SearchKey(node, key) == SearchLoop(node, key, 0, node.num_keys)

\* for i in (pos..num_keys).rev() { set_key(i + 1, get_key(i)) }, from index i down
RECURSIVE ShiftKeys(_, _, _)
ShiftKeys(node, i, pos) ==
    IF i < pos THEN node ELSE ShiftKeys(SetKey(node, i + 1, GetKey(node, i)), i - 1, pos)

\* the loop that writes values[i] at index i, or at i + 1 when i >= pos, from index i
RECURSIVE MoveValues(_, _, _, _, _)
MoveValues(node, values, i, pos, num_keys) ==
    IF i >= Len(values) THEN node
    ELSE MoveValues(SetValueAt(node, IF i >= pos THEN i + 1 ELSE i, values[i + 1], num_keys),
                    values, i + 1, pos, num_keys)

\* the loop that writes children[i] at index i, or at i + 1 when i > pos, from index i
RECURSIVE MoveChildren(_, _, _, _, _)
MoveChildren(node, children, i, pos, num_keys) ==
    IF i >= Len(children) THEN node
    ELSE MoveChildren(SetChildAt(node, IF i > pos THEN i + 1 ELSE i, children[i + 1], num_keys),
                      children, i + 1, pos, num_keys)

\* BTreeNode::insert_key_value
InsertKeyValue(node, key, value) ==
    LET num_keys == node.num_keys
        pos == SearchKey(node, key)
        values == [i \in 1..num_keys |-> GetValueAt(node, i - 1, num_keys)]
        shifted == ShiftKeys(node, num_keys - 1, pos)
        counted == [shifted EXCEPT !.num_keys = (num_keys + 1) % WORD]
        keyed == SetKey(counted, pos, key)
        moved == MoveValues(keyed, values, 0, pos, num_keys + 1)
    IN SetValueAt(moved, pos, value, num_keys + 1)

\* BTreeNode::insert_key_child
InsertKeyChild(node, key, child) ==
    LET num_keys == node.num_keys
        pos == SearchKey(node, key)
        children == [i \in 1..(num_keys + 1) |-> GetChildAt(node, i - 1, num_keys)]
        shifted == ShiftKeys(node, num_keys - 1, pos)
        counted == [shifted EXCEPT !.num_keys = (num_keys + 1) % WORD]
        keyed == SetKey(counted, pos, key)
        moved == MoveChildren(keyed, children, 0, pos, num_keys + 1)
    IN SetChildAt(moved, pos + 1, child, num_keys + 1)

\* BTreeNode::split_leaf: the node afterwards, the separator and the right pairs
SplitLeaf(node) ==
    LET num_keys == node.num_keys
        mid == num_keys \div 2
        left_values == [i \in 1..mid |-> GetValueAt(node, i - 1, num_keys)]
        right_pairs == [i \in 1..(num_keys - mid) |->
                           [key |-> GetKey(node, mid + i - 1),
                            value |-> GetValueAt(node, mid + i - 1, num_keys)]]
        cut == [node EXCEPT !.num_keys = mid]
    IN [node |-> MoveValues(cut, left_values, 0, mid, mid),
        separator_key |-> GetKey(node, mid),
        right_pairs |-> right_pairs]

\* BTreeNode::split_internal: the node afterwards, the separator, the right keys and
\* the right children
SplitInternal(node) ==
    LET num_keys == node.num_keys
        mid == num_keys \div 2
        left_children == [i \in 1..(mid + 1) |-> GetChildAt(node, i - 1, num_keys)]
        right_keys == [i \in 1..(num_keys - mid - 1) |-> GetKey(node, mid + i)]
        right_children == [i \in 1..(num_keys - mid) |-> GetChildAt(node, mid + i, num_keys)]
        cut == [node EXCEPT !.num_keys = mid]
    IN [node |-> MoveChildren(cut, left_children, 0, mid + 1, mid),
        separator_key |-> GetKey(node, mid),
        right_keys |-> right_keys,
        right_children |-> right_children]

\* the loop of insert_pairs, from pair i
RECURSIVE PutPairs(_, _, _)
PutPairs(node, pairs, i) ==
    IF i >= Len(pairs) THEN node
    ELSE PutPairs(SetValueAt(SetKey(node, i, pairs[i + 1].key), i, pairs[i + 1].value,
                             Len(pairs)),
                  pairs, i + 1)

\* BTreeNode::insert_pairs
InsertPairs(node, pairs) == PutPairs([node EXCEPT !.num_keys = Len(pairs)], pairs, 0)

\* the first loop of insert_keys_children, from key i
RECURSIVE PutKeys(_, _, _)
PutKeys(node, keys, i) ==
    IF i >= Len(keys) THEN node ELSE PutKeys(SetKey(node, i, keys[i + 1]), keys, i + 1)

\* BTreeNode::insert_keys_children
InsertKeysChildren(node, keys, children) ==
    MoveChildren(PutKeys([node EXCEPT !.num_keys = Len(keys)], keys, 0), children, 0,
                 Len(children), Len(keys))

(***************************************************************************)
(* The buffer pool under the B+-tree: calls that run one after another,    *)
(* each as a function of the pool [frames, page_table, free_list,          *)
(* replacer, recent_accesses, disk, num_pages].  disk holds the pages of   *)
(* the file that have been written; the others read as zeros.              *)
(***************************************************************************)
TreeFrame == [NewFrame EXCEPT !.data = ZeroImage]

\* DiskManager::new on a fresh file and BufferPoolManager::new(pool_size, LRUK_K, dm)
NewTreePool(pool_size) ==
    [frames |-> [f \in 0..(pool_size - 1) |-> TreeFrame],
     page_table |-> EmptyMap,
     free_list |-> [i \in 1..pool_size |-> i - 1],
     replacer |-> [NewReplacer EXCEPT !.max_frames = pool_size],
     recent_accesses |-> <<>>,
     disk |-> MapPut(EmptyMap, 0, DirectoryImage),
     num_pages |-> 1]

\* DiskManager::read_page
ReadImage(bp, page_id) == IF page_id \in DOMAIN bp.disk THEN bp.disk[page_id] ELSE ZeroImage

\* LruKReplacer::evict in a pool whose calls do not overlap: every access has its own
\* timestamp, so the scan ends on the same victim in every iteration order
TheVictim(rep) == CHOOSE victim \in EvictVictims(rep) : TRUE

\* get_free_frame with an empty free list, `victim` being what evict returned
PoolEvictFrame(bp, victim) ==
    IF victim = <<>> THEN [pool |-> bp, frame |-> <<>>]
    ELSE LET f == victim[1]
             fr == bp.frames[f]
         IN [pool |-> [bp EXCEPT
                 !.replacer = EvictApply(@, victim),
                 !.disk = IF fr.is_dirty /\ fr.page_id # <<>>
                          THEN MapPut(@, fr.page_id[1], fr.data) ELSE @,
                 !.page_table = IF fr.page_id # <<>> THEN MapDel(@, fr.page_id[1])
                                ELSE @,
                 !.frames[f] = TreeFrame],
             frame |-> victim]

\* get_free_frame: the pool afterwards and Ok(frame) as <<frame>>, Err as <<>>
PoolGetFreeFrame(bp) ==
    IF bp.free_list # <<>>
    THEN [pool |-> [bp EXCEPT !.free_list = Tail(@)], frame |-> <<Head(bp.free_list)>>]
    ELSE PoolEvictFrame(bp, TheVictim(bp.replacer))

\* new_page after its get_free_frame()?, `got` being what get_free_frame returned
PoolAllocateInto(got) ==
    IF got.frame = <<>> THEN [pool |-> got.pool, page |-> <<>>]
    ELSE LET f == got.frame[1]
             page_id == got.pool.num_pages
         IN [pool |-> [got.pool EXCEPT
                 !.num_pages = @ + 1,
                 !.disk = MapPut(@, page_id, ZeroImage),
                 !.frames[f] = [TreeFrame EXCEPT !.page_id = <<page_id>>],
                 !.page_table = MapPut(@, page_id, f),
                 !.replacer = SetEvictable(RecordAccess(@, f), f, TRUE)],
             page |-> <<page_id>>]

\* new_page: the pool afterwards and Ok(page_id) as <<page_id>>, Err as <<>>
PoolNewPage(bp) == PoolAllocateInto(PoolGetFreeFrame(bp))

\* the loop of prefetch_pages that collects frames: n more calls of get_free_frame,
\* until one fails
RECURSIVE CollectFrames(_, _, _)
CollectFrame(got, n, frame_ids) ==
    IF got.frame = <<>> THEN [pool |-> got.pool, frame_ids |-> frame_ids]
    ELSE CollectFrames(got.pool, n - 1, Append(frame_ids, got.frame[1]))
CollectFrames(bp, n, frame_ids) ==
    IF n = 0 THEN [pool |-> bp, frame_ids |-> frame_ids]
    ELSE CollectFrame(PoolGetFreeFrame(bp), n, frame_ids)

\* the distribution loop of prefetch_pages over the pages read
RECURSIVE PoolDistribute(_, _, _)
PoolDistribute(bp, pages_to_fetch, frame_ids) ==
    IF pages_to_fetch = <<>> THEN bp
    ELSE LET page_id == Head(pages_to_fetch)
             f == Head(frame_ids)
         IN PoolDistribute(
                [bp EXCEPT !.frames[f] = [@ EXCEPT !.page_id = <<page_id>>,
                                                   !.data = ReadImage(bp, page_id),
                                                   !.is_dirty = FALSE],
                           !.page_table = MapPut(@, page_id, f),
                           !.replacer = SetEvictable(RecordAccess(@, f), f, TRUE)],
                Tail(pages_to_fetch), Tail(frame_ids))

\* prefetch_pages from the frames collected on: the pages read go to the frames
PoolReadInto(got, pages_to_fetch) ==
    PoolDistribute(got.pool, SubSeq(pages_to_fetch, 1, Len(got.frame_ids)), got.frame_ids)

\* prefetch_pages once pages_to_fetch is built
PoolPrefetchList(bp, pages_to_fetch) ==
    IF pages_to_fetch = <<>> THEN bp
    ELSE PoolReadInto(CollectFrames(bp, Len(pages_to_fetch), <<>>), pages_to_fetch)

\* prefetch_pages(start_page_id, num_pages): the pool afterwards
PoolPrefetchPages(bp, start_page_id, n) ==
    PoolPrefetchList(bp, PagesToFetch(bp.page_table, start_page_id, n))

\* maybe_prefetch
PoolMaybePrefetch(bp, page_id) ==
    LET recent == TrackerRecord(bp.recent_accesses, page_id)
    IN IF IsSequential(recent)
       THEN PoolPrefetchPages([bp EXCEPT !.recent_accesses = recent], page_id + 1,
                              PREFETCH_LOOKAHEAD)
       ELSE [bp EXCEPT !.recent_accesses = recent]

\* the page is in the frame under its pin and in the page table: maybe_prefetch follows
PoolLoaded(loaded, page_id, frame) ==
    [pool |-> PoolMaybePrefetch(loaded, page_id), frame |-> frame]

\* fetch_page of a page that is not resident, `got` being what get_free_frame returned
PoolLoadInto(got, page_id) ==
    IF got.frame = <<>> THEN [pool |-> got.pool, frame |-> <<>>]
    ELSE LET f == got.frame[1]
         IN PoolLoaded([got.pool EXCEPT
                           !.frames[f] = [Pin(@) EXCEPT
                                             !.page_id = <<page_id>>,
                                             !.data = ReadImage(got.pool, page_id),
                                             !.is_dirty = FALSE],
                           !.page_table = MapPut(@, page_id, f),
                           !.replacer = SetEvictable(RecordAccess(@, f), f, FALSE)],
                       page_id, got.frame)

\* fetch_page: the pool afterwards and Ok(frame) as <<frame>>, Err as <<>>
PoolFetchPage(bp, page_id) ==
    IF page_id \in DOMAIN bp.page_table
    THEN LET f == bp.page_table[page_id]
         IN [pool |-> [bp EXCEPT !.frames[f] = Pin(@),
                                 !.replacer = SetEvictable(RecordAccess(@, f), f, FALSE)],
             frame |-> <<f>>]
    ELSE PoolLoadInto(PoolGetFreeFrame(bp), page_id)

\* the drop of the guard on page_id whose frame is f, after the caller left `node` in
\* the frame: the release callback with is_dirty
PoolRelease(bp, f, page_id, node, is_dirty) ==
    LET written == [bp EXCEPT !.frames[f].data = node]
    IN [written EXCEPT
           !.frames = ReleaseFrames(written.frames, written.page_table, page_id, is_dirty),
           !.replacer = ReleaseReplacer(written.frames, written.page_table, @, page_id)]

(***************************************************************************)
(* BTreeIndex (btree_index.rs).  A handle is [root_page_id, pc, ...] with  *)
(* the locals of the call it is in; one step of a handle is one call of    *)
(* new_page or one page guard from its acquisition to its drop.            *)
(***************************************************************************)
\* BTreeIndex::new / BTreeIndex::open on root_page_id, between two calls
IdleHandle(root_page_id) ==
    [root_page_id |-> root_page_id, pc |-> "idle", op |-> "none", status |-> "none",
     out |-> <<>>, key |-> 0, value |-> [page_id |-> 0, slot_id |-> 0], hi |-> 0,
     cur |-> 0, after |-> "none", page |-> 0, separator_key |-> 0, right_pairs |-> <<>>,
     right_keys |-> <<>>, right_children |-> <<>>, next |-> <<>>, parent |-> <<>>,
     new_id |-> 0, left |-> 0, new_root |-> 0, ip_parent |-> 0, ip_key |-> 0,
     ip_child |-> 0, i |-> 0, known |-> {}]

\* the call returns: Ok(out) or Err
Returns(bp, me, status, out) ==
    [pool |-> bp, me |-> [me EXCEPT !.pc = "done", !.status = status, !.out = out]]

\* the guard on page_id is dropped with `node` in its frame and the handle goes on as
\* `next_me`
Drops(got, page_id, node, is_dirty, next_me) ==
    [pool |-> PoolRelease(got.pool, got.frame[1], page_id, node, is_dirty), me |-> next_me]

\* the node a guard gives access to
NodeIn(got) == got.pool.frames[got.frame[1]].data

\* what follows a split of me.page into me.page and me.new_id: insert_into_parent, or
\* the new root
AfterSplit(me) ==
    IF me.parent # <<>>
    THEN [me EXCEPT !.pc = "ip_check", !.ip_parent = me.parent[1],
                    !.ip_key = me.separator_key, !.ip_child = me.new_id]
    ELSE [me EXCEPT !.pc = "nr_new", !.left = me.page]

\* the loop of range_scan over the keys of a leaf, from index i
RECURSIVE ScanLeaf(_, _, _, _, _)
ScanLeaf(node, i, start_key, end_key, results) ==
    IF i >= node.num_keys THEN [results |-> results, found_end |-> FALSE]
    ELSE LET key == GetKey(node, i)
             pushed == IF key >= start_key /\ key <= end_key
                       THEN Append(results, <<key, GetValue(node, i)>>) ELSE results
         IN IF key > end_key THEN [results |-> pushed, found_end |-> TRUE]
            ELSE ScanLeaf(node, i + 1, start_key, end_key, pushed)

\* find_leaf: child_index = pos + 1 when key == keys[pos], pos otherwise
ChildIndex(node, key) ==
    LET pos == SearchKey(node, key)
    IN IF pos < node.num_keys /\ GetKey(node, pos) = key THEN pos + 1 ELSE pos

\* range_scan leaves its loop: should_continue is false, or there is no next leaf
ScanEnds(next_id, found_end) == found_end \/ next_id = <<>>

\* needs_split of insert and insert_into_parent
NeedsSplit(node, order) == node.num_keys >= order

\* the step of a handle that holds a guard on page_id: got is what fetch_page returned
GuardStep(got, me, page_id) ==
    LET node == NodeIn(got)
    IN CASE me.pc = "find" ->
              IF IsLeaf(node)
              THEN Drops(got, page_id, node, FALSE, [me EXCEPT !.pc = me.after, !.page = page_id])
              ELSE Drops(got, page_id, node, FALSE,
                         [me EXCEPT !.cur = GetChild(node, ChildIndex(node, me.key))])
         [] me.pc = "i_check" ->
              Drops(got, page_id, node, FALSE,
                    [me EXCEPT !.pc = IF NeedsSplit(node, TreeOrder) THEN "sl_1" ELSE "i_put"])
         [] me.pc = "i_put" ->
              LET r == Drops(got, page_id, InsertKeyValue(node, me.key, me.value), TRUE, me)
              IN Returns(r.pool, me, "Ok", <<>>)
         [] me.pc = "sl_1" ->
              LET inserted == InsertKeyValue(node, me.key, me.value)
                  s == SplitLeaf(inserted)
              IN Drops(got, page_id, s.node, TRUE,
                       [me EXCEPT !.pc = "sl_new", !.separator_key = s.separator_key,
                                  !.right_pairs = s.right_pairs,
                                  !.next = PageOpt(inserted.next_page_id),
                                  !.parent = PageOpt(inserted.parent_page_id)])
         [] me.pc = "sl_2" ->
              Drops(got, page_id,
                    [InsertPairs(NodeInit(me.new_id, TRUE), me.right_pairs) EXCEPT
                        !.parent_page_id = OptRaw(me.parent),
                        !.next_page_id = OptRaw(me.next),
                        !.prev_page_id = OptRaw(<<me.page>>)],
                    TRUE, [me EXCEPT !.pc = "sl_3"])
         [] me.pc = "sl_3" ->
              Drops(got, page_id, [node EXCEPT !.next_page_id = OptRaw(<<me.new_id>>)], TRUE,
                    IF me.next # <<>> THEN [me EXCEPT !.pc = "sl_4"] ELSE AfterSplit(me))
         [] me.pc = "sl_4" ->
              Drops(got, page_id, [node EXCEPT !.prev_page_id = OptRaw(<<me.new_id>>)], TRUE,
                    AfterSplit(me))
         [] me.pc = "nr_1" ->
              Drops(got, page_id,
                    InsertKeysChildren(NodeInit(me.new_root, FALSE), <<me.separator_key>>,
                                       <<me.left, me.new_id>>),
                    TRUE, [me EXCEPT !.pc = "nr_2"])
         [] me.pc = "nr_2" ->
              Drops(got, page_id, [node EXCEPT !.parent_page_id = OptRaw(<<me.new_root>>)],
                    TRUE, [me EXCEPT !.pc = "nr_3"])
         [] me.pc = "nr_3" ->
              LET r == Drops(got, page_id,
                             [node EXCEPT !.parent_page_id = OptRaw(<<me.new_root>>)], TRUE, me)
              IN Returns(r.pool, [me EXCEPT !.root_page_id = me.new_root], "Ok", <<>>)
         [] me.pc = "ip_check" ->
              Drops(got, page_id, node, FALSE,
                    [me EXCEPT !.pc = IF NeedsSplit(node, TreeOrder) THEN "si_1" ELSE "ip_put"])
         [] me.pc = "ip_put" ->
              LET r == Drops(got, page_id, InsertKeyChild(node, me.ip_key, me.ip_child), TRUE,
                             me)
              IN Returns(r.pool, me, "Ok", <<>>)
         [] me.pc = "si_1" ->
              LET inserted == InsertKeyChild(node, me.ip_key, me.ip_child)
                  s == SplitInternal(inserted)
              IN Drops(got, page_id, s.node, TRUE,
                       [me EXCEPT !.pc = "si_new", !.page = page_id,
                                  !.separator_key = s.separator_key,
                                  !.right_keys = s.right_keys,
                                  !.right_children = s.right_children,
                                  !.parent = PageOpt(inserted.parent_page_id)])
         [] me.pc = "si_2" ->
              Drops(got, page_id,
                    [InsertKeysChildren(NodeInit(me.new_id, FALSE), me.right_keys,
                                        me.right_children) EXCEPT
                        !.parent_page_id = OptRaw(me.parent)],
                    TRUE, [me EXCEPT !.pc = "si_child", !.i = 1])
         [] me.pc = "si_child" ->
              Drops(got, page_id, [node EXCEPT !.parent_page_id = OptRaw(<<me.new_id>>)], TRUE,
                    IF me.i < Len(me.right_children) THEN [me EXCEPT !.i = @ + 1]
                    ELSE AfterSplit(me))
         [] me.pc = "s_read" ->
              LET pos == SearchKey(node, me.key)
                  r == Drops(got, page_id, node, FALSE, me)
              IN Returns(r.pool, me, "Ok",
                         IF pos < node.num_keys /\ GetKey(node, pos) = me.key
                         THEN <<GetValue(node, pos)>> ELSE <<>>)
         [] me.pc = "r_leaf" ->
              LET scan == ScanLeaf(node, 0, me.key, me.hi, me.out)
                  next_id == PageOpt(node.next_page_id)
                  r == Drops(got, page_id, node, FALSE, me)
              IN IF ScanEnds(next_id, scan.found_end)
                 THEN Returns(r.pool, me, "Ok", scan.results)
                 ELSE [pool |-> r.pool, me |-> [me EXCEPT !.out = scan.results,
                                                          !.cur = next_id[1]]]

\* the page the handle takes its next guard on
GuardPage(me) ==
    CASE me.pc \in {"find", "r_leaf"} -> me.cur
      [] me.pc \in {"i_check", "i_put", "sl_1", "sl_3", "s_read"} -> me.page
      [] me.pc \in {"sl_2", "si_2", "nr_3"} -> me.new_id
      [] me.pc = "sl_4" -> me.next[1]
      [] me.pc = "nr_1" -> me.new_root
      [] me.pc = "nr_2" -> me.left
      [] me.pc \in {"ip_check", "ip_put", "si_1"} -> me.ip_parent
      [] me.pc = "si_child" -> me.right_children[me.i]

\* new_page()? of a split, `made` being what new_page returned
AllocStep(made, me) ==
    IF made.page = <<>> THEN Returns(made.pool, me, "Err", <<>>)
    ELSE [pool |-> made.pool,
          me |-> CASE me.pc = "sl_new" -> [me EXCEPT !.pc = "sl_2", !.new_id = made.page[1]]
                   [] me.pc = "si_new" -> [me EXCEPT !.pc = "si_2", !.new_id = made.page[1]]
                   [] me.pc = "nr_new" -> [me EXCEPT !.pc = "nr_1",
                                                     !.new_root = made.page[1]]]

\* checked_read_page(..)? / checked_write_page(..)?, `got` being what fetch_page returned
CheckedStep(got, me, page_id) ==
    IF got.frame = <<>> THEN Returns(got.pool, me, "Err", <<>>)
    ELSE GuardStep(got, me, page_id)

\* one step of a handle in a call: new_page()?, or checked_read_page(..)? /
\* checked_write_page(..)? with the work under the guard and its drop
HandleStep(bp, me) ==
    IF me.pc \in {"sl_new", "si_new", "nr_new"}
    THEN AllocStep(PoolNewPage(bp), me)
    ELSE CheckedStep(PoolFetchPage(bp, GuardPage(me)), me, GuardPage(me))

\* the calls: insert(key, value), search(key), range_scan(start_key, end_key)
StartInsert(me, key, value) ==
    [me EXCEPT !.op = "insert", !.pc = "find", !.after = "i_check", !.key = key,
               !.value = value, !.cur = me.root_page_id]
StartSearch(me, key) ==
    [me EXCEPT !.op = "search", !.pc = "find", !.after = "s_read", !.key = key,
               !.cur = me.root_page_id]
StartRangeScan(me, start_key, end_key) ==
    [me EXCEPT !.op = "range_scan", !.pc = "find", !.after = "r_leaf", !.key = start_key,
               !.hi = end_key, !.cur = me.root_page_id]

(***************************************************************************)
(* The B+-tree over its buffer pool: BTreeIndex::new, then the calls of    *)
(* the handles on the tree.                                                *)
(***************************************************************************)
Handles == 1..NumHandles
TreeKeys == 1..MaxKey
\* the keys a search is given: the keys inserted, and one below and above
ProbeKeys == 0..(MaxKey + 1)

\* the RecordId the callers insert under a key
ValueOf(key) == [page_id |-> key, slot_id |-> key % 100]

\* before the pool and the index are built
InitTree ==
    /\ bt_pool = NewTreePool(0)
    /\ bt_h = [h \in Handles |-> IdleHandle(0)]
    /\ bt_inserted = {}
    /\ bt_begun = {}
    /\ bt_reads = 0
    /\ bt_again = {}
    /\ bt_failed = FALSE
    /\ bt_ret = IdleHandle(0)

\* the write guard of BTreeIndex::new on the root, `got` being what fetch_page returned
RootWritten(got, root_page_id) ==
    PoolRelease(got.pool, got.frame[1], root_page_id, NodeInit(root_page_id, TRUE), TRUE)

\* BTreeIndex::new after its new_page()?, `made` being what new_page returned
Built(made) ==
    /\ bt_pool' = RootWritten(PoolFetchPage(made.pool, made.page[1]), made.page[1])
    /\ bt_h' = [h \in Handles |-> IdleHandle(made.page[1])]

\* BufferPoolManager::new(pool_size, ..) and BTreeIndex::new(bpm): new_page, then
\* init(root_page_id, true) under a write guard; the other handles are opened on the
\* root with BTreeIndex::open
NewIndex(pool_size) ==
    /\ bt_pool.num_pages = 1
    /\ bt_pool.page_table = EmptyMap
    /\ Built(PoolNewPage(NewTreePool(pool_size)))
    /\ UNCHANGED <<bt_inserted, bt_begun, bt_reads, bt_failed, bt_ret, bt_again>>
    /\ UNCHANGED nonBtVars

\* the index has been built and handle h is between two calls
Ready(h) == bt_pool.num_pages > 1 /\ bt_h[h].pc = "idle"

\* handle h calls insert(key, ValueOf(key)) with a key not inserted before
Insert(h, key) ==
    /\ Ready(h)
    /\ key \notin bt_begun
    /\ bt_h' = [bt_h EXCEPT ![h] = StartInsert(@, key, ValueOf(key))]
    /\ bt_begun' = bt_begun \cup {key}
    /\ UNCHANGED <<bt_pool, bt_inserted, bt_reads, bt_failed, bt_ret, bt_again>>
    /\ UNCHANGED nonBtVars

\* the RecordId of the second insert under a key
OtherValueOf(key) == [page_id |-> key + 1, slot_id |-> (key + 1) % 100]

\* handle h calls insert(key, OtherValueOf(key)) with a key whose insert has returned Ok
InsertAgain(h, key) ==
    /\ Ready(h)
    /\ key \in bt_inserted
    /\ key \notin bt_again
    /\ bt_h' = [bt_h EXCEPT ![h] = StartInsert(@, key, OtherValueOf(key))]
    /\ bt_again' = bt_again \cup {key}
    /\ UNCHANGED <<bt_pool, bt_inserted, bt_begun, bt_reads, bt_failed, bt_ret>>
    /\ UNCHANGED nonBtVars

\* handle h calls search(key)
Search(h, key) ==
    /\ Ready(h)
    /\ bt_reads < MaxReads
    /\ bt_h' = [bt_h EXCEPT ![h] = [StartSearch(@, key) EXCEPT !.known = bt_inserted]]
    /\ bt_reads' = bt_reads + 1
    /\ UNCHANGED <<bt_pool, bt_inserted, bt_begun, bt_failed, bt_ret, bt_again>>
    /\ UNCHANGED nonBtVars

\* handle h calls range_scan(start_key, end_key)
RangeScan(h, start_key, end_key) ==
    /\ Ready(h)
    /\ bt_reads < MaxReads
    /\ start_key <= end_key /\ end_key <= start_key + MaxSpan
    /\ bt_h' = [bt_h EXCEPT ![h] = [StartRangeScan(@, start_key, end_key) EXCEPT
                                       !.known = bt_inserted]]
    /\ bt_reads' = bt_reads + 1
    /\ UNCHANGED <<bt_pool, bt_inserted, bt_begun, bt_failed, bt_ret, bt_again>>
    /\ UNCHANGED nonBtVars

\* the step of handle h has left the pool r.pool and the handle r.me
Stepped(h, r) ==
    /\ bt_pool' = r.pool
    /\ IF r.me.pc = "done"
       THEN /\ bt_h' = [bt_h EXCEPT ![h] = IdleHandle(r.me.root_page_id)]
            /\ bt_ret' = r.me
            /\ bt_inserted' = IF r.me.op = "insert" /\ r.me.status = "Ok"
                              THEN bt_inserted \cup {r.me.key} ELSE bt_inserted
            /\ bt_failed' = (bt_failed \/ r.me.status = "Err")
       ELSE /\ bt_h' = [bt_h EXCEPT ![h] = r.me]
            /\ UNCHANGED <<bt_inserted, bt_failed, bt_ret>>

\* handle h takes the next step of its call, the pool's timestamp below `limit`; when
\* the call returns, the handle is between two calls again
TreeStep(h, limit) ==
    /\ bt_h[h].pc \notin {"idle", "done"}
    /\ bt_pool.replacer.ts < limit
    /\ Stepped(h, HandleStep(bt_pool, bt_h[h]))
    /\ UNCHANGED <<bt_begun, bt_reads, bt_again>>
    /\ UNCHANGED nonBtVars

\* one handle on the tree: inserts and searches
NextTree ==
    \/ \E pool_size \in 1..MaxTreePool : NewIndex(pool_size)
    \/ \E key \in TreeKeys : Insert(1, key)
    \/ \E key \in ProbeKeys : Search(1, key)
    \/ TreeStep(1, MaxTreeTs)

\* one handle on the tree in a pool of MaxTreePool frames: inserts and range scans
NextTreeScan ==
    \/ NewIndex(MaxTreePool)
    \/ \E key \in 1..MaxScanKey : Insert(1, key)
    \/ \E start_key, end_key \in 0..(MaxScanKey + 1) : RangeScan(1, start_key, end_key)
    \/ TreeStep(1, MaxTreeTs)

\* one handle on the tree: inserts, second inserts of a key, range scans
NextTreeDup ==
    \/ NewIndex(MaxTreePool)
    \/ \E key \in 1..MaxDupKey : Insert(1, key)
    \/ \E key \in 1..MaxDupKey : InsertAgain(1, key)
    \/ \E start_key, end_key \in 0..(MaxDupKey + 1) : RangeScan(1, start_key, end_key)
    \/ TreeStep(1, MaxTreeTs)

\* the handles of several threads on the tree
NextTreeConc ==
    \/ \E pool_size \in 1..MaxTreePool : NewIndex(pool_size)
    \/ \E h \in Handles :
        \/ \E key \in 1..MaxConcKey : Insert(h, key)
        \/ \E key \in 0..(MaxConcKey + 1) : Search(h, key)
        \/ TreeStep(h, ConcTreeTs)

(***************************************************************************)
(* DiskManager with its ExtentAllocator: segment file 0 of one database.   *)
(* A page of the file is "dir" (a valid directory page) or "zero".         *)
(***************************************************************************)
\* ExtentInfo::new; allocated_bitmap is kept as the set of the bits that are set
NewExtentInfo == [allocated_bitmap |-> {}, allocated_count |-> 0]

\* ExtentInfo::is_full
ExtentIsFull(info) == info.allocated_count = EXTENT_SIZE

AllocateNextHighest(info) ==
    LET clear == {i \in 0..(EXTENT_SIZE - 1) : i \notin info.allocated_bitmap}
    IN IF info.allocated_count >= EXTENT_SIZE \/ clear = {} THEN <<>>
       ELSE <<CHOOSE i \in clear : \A j \in clear : i >= j>>

\* ExtentInfo::allocate_next: Some(i) for the lowest bit i that is not set, None when
\* allocated_count >= EXTENT_SIZE or every bit is set
AllocateNext(info) ==
    LET clear == {i \in 0..(EXTENT_SIZE - 1) : i \notin info.allocated_bitmap}
    IN IF info.allocated_count >= EXTENT_SIZE \/ clear = {} THEN <<>>
       ELSE <<CHOOSE i \in clear : \A j \in clear : i <= j>>

\* the extent after allocate_next returned Some(i)
Allocated(info, i) ==
    [allocated_bitmap |-> info.allocated_bitmap \cup {i},
     allocated_count |-> info.allocated_count + 1]

DeallocateKeepsCount(info, offset) ==
    [info EXCEPT !.allocated_bitmap = @ \ {offset}]

\* ExtentInfo::deallocate
Deallocate(info, offset) ==
    IF offset \in info.allocated_bitmap
    THEN [allocated_bitmap |-> info.allocated_bitmap \ {offset},
          allocated_count |-> info.allocated_count - 1]
    ELSE info

\* the loop of allocate_extent_for_table: info after n more calls of allocate_next,
\* and the offsets they returned
RECURSIVE FillExtent(_, _, _)
FillExtent(info, n, offsets) ==
    IF n = 0 THEN [info |-> info, offsets |-> offsets]
    ELSE LET next == AllocateNext(info)
         IN IF next = <<>> THEN FillExtent(info, n - 1, offsets)
            ELSE FillExtent(Allocated(info, next[1]), n - 1, Append(offsets, next[1]))

\* ExtentAllocator::new
NewExtentAllocator == [table_extents |-> EmptyMap, extent_info |-> EmptyMap,
                       next_extent_id |-> 0]

\* ExtentAllocator::from_existing
FromExisting(n) ==
    LET num_extents == (n + EXTENT_SIZE - 1) \div EXTENT_SIZE
    IN [table_extents |-> EmptyMap,
        extent_info |-> [e \in 0..(num_extents - 1) |->
                            LET start == e * EXTENT_SIZE
                                end == IF (e + 1) * EXTENT_SIZE < n THEN (e + 1) * EXTENT_SIZE
                                       ELSE n
                                pages_in_extent == end - start
                            IN [allocated_bitmap |-> 0..(pages_in_extent - 1),
                                allocated_count |-> pages_in_extent]],
        next_extent_id |-> num_extents]

ExtentsOfFirst(ea, table_id) ==
    IF 1 \in DOMAIN ea.table_extents THEN ea.table_extents[1] ELSE <<>>

\* the extents of a table (entry(table_id).or_insert_with(Vec::new))
ExtentsOf(ea, table_id) ==
    IF table_id \in DOMAIN ea.table_extents THEN ea.table_extents[table_id] ELSE <<>>

\* the loop of allocate_page_for_table over extents.iter().rev() from position i:
\* the first extent that is not full, <<>> if none
RECURSIVE FindExtent(_, _, _)
FindExtent(ea, extents, i) ==
    IF i = 0 THEN <<>>
    ELSE IF extents[i] \in DOMAIN ea.extent_info /\ ~ExtentIsFull(ea.extent_info[extents[i]])
         THEN <<extents[i]>>
         ELSE FindExtent(ea, extents, i - 1)

\* ExtentAllocator::allocate_page_for_table: the allocator afterwards and the page
ExtAllocatePage(ea, table_id) ==
    LET extents == ExtentsOf(ea, table_id)
        found == FindExtent(ea, extents, Len(extents))
    IN IF found # <<>>
       THEN LET e == found[1]
                offset == AllocateNext(ea.extent_info[e])[1]
            IN [ea |-> [ea EXCEPT !.table_extents = MapPut(@, table_id, extents),
                                  !.extent_info = MapPut(@, e, Allocated(ea.extent_info[e],
                                                                         offset))],
                page |-> e * EXTENT_SIZE + offset]
       ELSE LET e == ea.next_extent_id
                offset == AllocateNext(NewExtentInfo)[1]
            IN [ea |-> [ea EXCEPT !.next_extent_id = @ + 1,
                                  !.extent_info = MapPut(@, e, Allocated(NewExtentInfo,
                                                                         offset)),
                                  !.table_extents = MapPut(@, table_id, Append(extents, e))],
                page |-> e * EXTENT_SIZE + offset]

\* ExtentAllocator::allocate_extent_for_table: the allocator afterwards and the pages
ExtAllocateExtent(ea, table_id) ==
    LET e == ea.next_extent_id
        filled == FillExtent(NewExtentInfo, EXTENT_SIZE, <<>>)
    IN [ea |-> [ea EXCEPT !.next_extent_id = @ + 1,
                          !.extent_info = MapPut(@, e, filled.info),
                          !.table_extents = MapPut(@, table_id,
                                                   Append(ExtentsOf(ea, table_id), e))],
        pages |-> [i \in 1..Len(filled.offsets) |-> e * EXTENT_SIZE + filled.offsets[i]]]

\* ExtentAllocator::deallocate_page
ExtDeallocatePage(ea, page_id) ==
    LET e == page_id \div EXTENT_SIZE
        offset == page_id % EXTENT_SIZE
    IN IF e \in DOMAIN ea.extent_info
       THEN [ea EXCEPT !.extent_info = MapPut(@, e, Deallocate(ea.extent_info[e], offset))]
       ELSE ea

\* write_page / write_pages of zeros at offsets first..last of the file: the file
\* grows, with zero pages in between, when the write ends past its end
WriteZeros(file, first, last) ==
    [i \in 1..(IF last + 1 > Len(file) THEN last + 1 ELSE Len(file)) |->
        IF i - 1 >= first /\ i - 1 <= last THEN "zero"
        ELSE IF i <= Len(file) THEN file[i] ELSE "zero"]

\* DiskManager::new when no file exists: the file is created, init_directory_page
InitDm ==
    /\ dm_file = <<"dir">>
    /\ dm_num_pages = 1
    /\ extent_allocator = NewExtentAllocator
    /\ dm_status = "open"
    /\ dm_ret = {}
    /\ ea_live = {}
    /\ ea_returned = [table_id \in 1..NumTables |-> {}]
    /\ dm_handed = {}

\* DiskManager::allocate_page
AllocatePage ==
    /\ dm_status = "open"
    /\ dm_num_pages < MaxFilePages
    /\ dm_num_pages' = dm_num_pages + 1
    /\ dm_file' = WriteZeros(dm_file, dm_num_pages, dm_num_pages)
    /\ dm_ret' = {dm_num_pages}
    /\ dm_handed' = dm_handed \cup {dm_num_pages}
    /\ UNCHANGED <<extent_allocator, dm_status, ea_live, ea_returned>>
    /\ UNCHANGED nonDmVars

\* DiskManager::allocate_page_for_table
AllocatePageForTable(table_id) ==
    /\ dm_status = "open"
    /\ LET r == ExtAllocatePage(extent_allocator, table_id)
       IN /\ r.page < MaxFilePages
          /\ r.page <= PAGE_OFFSET_MASK
          /\ extent_allocator' = r.ea
          /\ dm_num_pages' = IF r.page + 1 > dm_num_pages THEN r.page + 1 ELSE dm_num_pages
          /\ dm_file' = WriteZeros(dm_file, r.page, r.page)
          /\ dm_ret' = {r.page}
          /\ ea_live' = ea_live \cup {r.page}
          /\ dm_handed' = dm_handed \cup {r.page}
          /\ ea_returned' = [ea_returned EXCEPT ![table_id] = @ \cup {r.page}]
    /\ UNCHANGED dm_status
    /\ UNCHANGED nonDmVars

\* DiskManager::allocate_extent_for_table
AllocateExtentForTable(table_id) ==
    /\ dm_status = "open"
    /\ LET r == ExtAllocateExtent(extent_allocator, table_id)
           first == r.pages[1]
           last == r.pages[EXTENT_SIZE]
       IN /\ last < MaxFilePages
          /\ last <= PAGE_OFFSET_MASK
          /\ extent_allocator' = r.ea
          /\ dm_num_pages' = IF last + 1 > dm_num_pages THEN last + 1 ELSE dm_num_pages
          /\ dm_file' = WriteZeros(dm_file, first, last)
          /\ dm_ret' = {r.pages[i] : i \in 1..EXTENT_SIZE}
          /\ ea_live' = ea_live \cup {r.pages[i] : i \in 1..EXTENT_SIZE}
          /\ dm_handed' = dm_handed \cup {r.pages[i] : i \in 1..EXTENT_SIZE}
          /\ ea_returned' = [ea_returned EXCEPT
                                ![table_id] = @ \cup {r.pages[i] : i \in 1..EXTENT_SIZE}]
    /\ UNCHANGED dm_status
    /\ UNCHANGED nonDmVars

\* DiskManager::deallocate_page of a page of file 0, one of the first pages of an extent
DeallocatePage(page_id) ==
    /\ dm_status = "open"
    /\ page_id < dm_num_pages
    /\ page_id % EXTENT_SIZE <= MaxDeallocOffset
    /\ extent_allocator' = ExtDeallocatePage(extent_allocator, page_id)
    /\ dm_ret' = {}
    /\ ea_live' = ea_live \ {page_id}
    /\ dm_handed' = dm_handed \ {page_id}
    /\ UNCHANGED <<dm_file, dm_num_pages, dm_status, ea_returned>>
    /\ UNCHANGED nonDmVars

\* the DiskManager is dropped and DiskManager::new runs on the same file: the page
\* count is the file's, ExtentAllocator::from_existing, validate_directory_page
ReopenDm ==
    /\ dm_status = "open"
    /\ dm_num_pages' = Len(dm_file)
    /\ extent_allocator' = FromExisting(Len(dm_file))
    /\ dm_status' = IF dm_file[1] = "dir" THEN "open" ELSE "invalid"
    /\ dm_ret' = {}
    /\ ea_live' = 0..(Len(dm_file) - 1)
    /\ ea_returned' = [table_id \in 1..NumTables |-> {}]
    /\ UNCHANGED <<dm_file, dm_handed>>
    /\ UNCHANGED nonDmVars

NextDisk ==
    \/ AllocatePage
    \/ \E table_id \in 1..NumTables : AllocatePageForTable(table_id)
    \/ \E table_id \in 1..NumTables : AllocateExtentForTable(table_id)
    \/ \E page_id \in 0..(MaxFilePages - 1) : DeallocatePage(page_id)
    \/ ReopenDm

(***************************************************************************)
(* DiskScheduler: callers queue requests through the synchronous helpers,  *)
(* the worker thread runs each against the DiskManager and reports.        *)
(* The callers are the buffer pool's flush_page, the bulk branch of        *)
(* flush_all_pages and the read of fetch_page, on pages held in frames.    *)
(***************************************************************************)
\* PageId::from_parts, PageId::file_id, PageId::page_offset
PageIdFromParts(file_id, page_offset) == file_id * (PAGE_OFFSET_MASK + 1) + page_offset
FileIdOf(page_id) == page_id \div (PAGE_OFFSET_MASK + 1)
PageOffsetOf(page_id) == page_id % (PAGE_OFFSET_MASK + 1)

\* the pages the callers work on: two pages of file 0, the last page of file 0 and
\* the first page of file 1
SchedPages == {PageIdFromParts(0, 1), PageIdFromParts(0, 2),
               PageIdFromParts(0, PAGE_OFFSET_MASK), PageIdFromParts(1, 0)}

IdleCaller == [pc |-> "idle", op |-> "none", page_id |-> 0, num_pages |-> 0,
               reply |-> <<>>, dm_ok |-> TRUE, result |-> "none", cleared |-> {}]

\* DiskManager::new on a database with segment file 0 only, DiskScheduler::new and an
\* empty buffer pool
InitSched ==
    /\ sq_queue = <<>>
    /\ sq_files = {0}
    /\ sq_disk = [p \in SchedPages |-> 0]
    /\ sq_dirty = EmptyMap
    /\ sq_call = [c \in 1..NumCallers |-> IdleCaller]

\* DiskManager::read_page / write_page succeed when the segment file exists;
\* read_pages / write_pages also need the run to end inside the file's offset range
DmCallOk(files, page_id, n_pages) ==
    IF n_pages = 1 THEN FileIdOf(page_id) \in files
    ELSE /\ PageOffsetOf(page_id) + n_pages <= PAGE_OFFSET_MASK + 1
         /\ FileIdOf(page_id) \in files

\* schedule_write_sync / schedule_write_pages_sync / schedule_read_sync up to
\* rx.recv(): the request is built with its callback and sent
ScheduleSync(c, op, page_id, n_pages) ==
    /\ sq_call[c].pc = "idle"
    /\ Len(sq_queue) < QueueCapacity
    /\ sq_queue' = Append(sq_queue, [is_write |-> op # "fetch", page_id |-> page_id,
                                     num_pages |-> n_pages, caller |-> c])
    /\ sq_call' = [sq_call EXCEPT ![c] = [IdleCaller EXCEPT !.pc = "recv", !.op = op,
                                                           !.page_id = page_id,
                                                           !.num_pages = n_pages]]
    /\ UNCHANGED <<sq_files, sq_disk, sq_dirty>>
    /\ UNCHANGED nonSqVars

\* flush_page and flush_all_pages take the page-table mutex on entry and hold it until
\* they return, across the synchronous write; fetch_page reads without it
HoldsPageTableMutex(c) == sq_call[c].pc = "recv" /\ sq_call[c].op \in {"flush_page", "flush_run"}

PageTableFree == \A d \in 1..NumCallers : ~HoldsPageTableMutex(d)

\* flush_page(p) on a resident page: copy_to, schedule_write_sync
FlushPageCall(c, page_id) ==
    /\ PageTableFree
    /\ page_id \in DOMAIN sq_dirty
    /\ ScheduleSync(c, "flush_page", page_id, 1)

\* flush_all_pages on a run of two dirty pages with consecutive ids: the bulk branch,
\* schedule_write_pages_sync
FlushRunCall(c, page_id) ==
    /\ PageTableFree
    /\ {page_id, page_id + 1} \subseteq DOMAIN sq_dirty
    /\ sq_dirty[page_id] /\ sq_dirty[page_id + 1]
    /\ ScheduleSync(c, "flush_run", page_id, 2)

\* fetch_page of a page that is in no frame: schedule_read_sync, called without the
\* page-table mutex
FetchReadCall(c, page_id) ==
    /\ page_id \notin DOMAIN sq_dirty
    /\ ScheduleSync(c, "fetch", page_id, 1)

\* the worker: receiver.recv_timeout gives the oldest request; process_request runs
\* the DiskManager call and sends its success to the callback
ProcessRequest ==
    /\ sq_queue # <<>>
    /\ LET request == Head(sq_queue)
           success == DmCallOk(sq_files, request.page_id, request.num_pages)
       IN /\ sq_disk' = IF success /\ request.is_write
                        THEN [p \in SchedPages |->
                                IF p >= request.page_id /\ p < request.page_id + request.num_pages
                                THEN 1 ELSE sq_disk[p]]
                        ELSE sq_disk
          /\ sq_call' = [sq_call EXCEPT ![request.caller].reply = <<success>>,
                                        ![request.caller].dm_ok = success]
    /\ sq_queue' = Tail(sq_queue)
    /\ UNCHANGED <<sq_files, sq_dirty>>
    /\ UNCHANGED nonSqVars

\* the helper after rx.recv(): an error only if the channel broke, else Ok(()); then
\* the rest of the caller: a fetch binds the page to its frame, a flush calls
\* set_dirty(false) on the frames it wrote; both return Ok
SyncReturn(c) ==
    /\ sq_call[c].pc = "recv"
    /\ sq_call[c].reply # <<>>
    /\ LET pages == IF sq_call[c].op = "fetch" THEN {}
                    ELSE {p \in SchedPages : /\ p >= sq_call[c].page_id
                                             /\ p < sq_call[c].page_id + sq_call[c].num_pages}
       IN /\ sq_dirty' = IF sq_call[c].op = "fetch"
                         THEN IF sq_call[c].page_id \in DOMAIN sq_dirty THEN sq_dirty
                              ELSE MapPut(sq_dirty, sq_call[c].page_id, FALSE)
                         ELSE [p \in DOMAIN sq_dirty |->
                                 IF p \in pages THEN FALSE ELSE sq_dirty[p]]
          /\ sq_call' = [sq_call EXCEPT ![c].pc = "idle", ![c].result = "ok",
                                        ![c].cleared = {p \in pages : sq_dirty[p]}]
    /\ UNCHANGED <<sq_queue, sq_files, sq_disk>>
    /\ UNCHANGED nonSqVars

\* a write guard is released on a page: its frame is dirty again
MarkDirty(page_id) ==
    /\ page_id \in DOMAIN sq_dirty
    /\ ~sq_dirty[page_id]
    /\ sq_dirty' = [sq_dirty EXCEPT ![page_id] = TRUE]
    /\ UNCHANGED <<sq_queue, sq_files, sq_disk, sq_call>>
    /\ UNCHANGED nonSqVars

\* DiskManager::add_file
AddFile ==
    /\ Cardinality(sq_files) < MaxFiles
    /\ sq_files' = sq_files \cup {Cardinality(sq_files)}
    /\ UNCHANGED <<sq_queue, sq_disk, sq_dirty, sq_call>>
    /\ UNCHANGED nonSqVars

NextSched ==
    \/ \E c \in 1..NumCallers : \E p \in SchedPages : FlushPageCall(c, p)
    \/ \E c \in 1..NumCallers : \E p \in SchedPages : FlushRunCall(c, p)
    \/ \E c \in 1..NumCallers : \E p \in SchedPages : FetchReadCall(c, p)
    \/ ProcessRequest
    \/ \E c \in 1..NumCallers : SyncReturn(c)
    \/ \E p \in SchedPages : MarkDirty(p)
    \/ AddFile

(***************************************************************************)
(* LruKReplacer on its own: threads call record_access, set_evictable,     *)
(* remove and evict on frame ids 0..ReplFrames of a replacer built with    *)
(* max_frames = ReplFrames.  record_access draws its timestamp before it   *)
(* takes the frame_info mutex; the other calls run under the mutexes.      *)
(***************************************************************************)
ReplFrameIds == 0..ReplFrames

\* LruKReplacer::new(LRUK_K, ReplFrames)
InitRepl ==
    /\ rp = [NewReplacer EXCEPT !.max_frames = ReplFrames]
    /\ rp_pend = [t \in 1..ReplThreads |-> <<>>]
    /\ rp_ret = [op |-> "none", res |-> <<>>, hist |-> <<>>]

\* record_access up to current_timestamp.fetch_add (or its early return)
ReplRecordStart(t, frame_id) ==
    /\ rp_pend[t] = <<>>
    /\ rp.ts < MaxReplTs
    /\ IF frame_id >= rp.max_frames
       THEN UNCHANGED <<rp, rp_pend>>
       ELSE /\ rp' = [rp EXCEPT !.ts = @ + 1]
            /\ rp_pend' = [rp_pend EXCEPT ![t] = <<frame_id, rp.ts>>]
    /\ rp_ret' = [op |-> "fetch_add", res |-> <<>>, hist |-> <<>>]
    /\ UNCHANGED nonRpVars

\* record_access from frame_info.lock(): entry().or_insert_with().record_access
ReplRecordPush(t) ==
    /\ rp_pend[t] # <<>>
    /\ LET frame_id == rp_pend[t][1]
           old == IF frame_id \in DOMAIN rp.info THEN rp.info[frame_id] ELSE NewAccessInfo
       IN /\ rp' = [rp EXCEPT !.info = MapPut(@, frame_id,
                                              InfoRecordAccess(old, rp_pend[t][2], LRUK_K))]
          /\ rp_ret' = [op |-> "record_access", res |-> <<>>, hist |-> <<>>]
    /\ rp_pend' = [rp_pend EXCEPT ![t] = <<>>]
    /\ UNCHANGED nonRpVars

\* LruKReplacer::set_evictable
ReplSetEvictable(frame_id, is_evictable) ==
    /\ rp' = SetEvictable(rp, frame_id, is_evictable)
    /\ rp_ret' = [op |-> "set_evictable", res |-> <<>>, hist |-> <<>>]
    /\ UNCHANGED rp_pend
    /\ UNCHANGED nonRpVars

\* LruKReplacer::remove
ReplRemove(frame_id) ==
    /\ rp' = ReplacerRemove(rp, frame_id)
    /\ rp_ret' = [op |-> "remove", res |-> <<>>, hist |-> <<>>]
    /\ UNCHANGED rp_pend
    /\ UNCHANGED nonRpVars

\* LruKReplacer::evict returning `victim` (<<>> for None)
ReplEvictReturns(victim) ==
    /\ victim \in EvictVictims(rp)
    /\ rp' = EvictApply(rp, victim)
    /\ rp_ret' = [op |-> "evict", res |-> victim,
                  hist |-> IF victim = <<>> THEN <<>> ELSE rp.info[victim[1]].history]
    /\ UNCHANGED rp_pend
    /\ UNCHANGED nonRpVars

ReplEvict == \E victim \in {<<>>} \cup {<<f>> : f \in ReplFrameIds} : ReplEvictReturns(victim)

NextRepl ==
    \/ \E t \in 1..ReplThreads : \E f \in ReplFrameIds : ReplRecordStart(t, f)
    \/ \E t \in 1..ReplThreads : ReplRecordPush(t)
    \/ \E f \in ReplFrameIds : \E b \in BOOLEAN : ReplSetEvictable(f, b)
    \/ \E f \in ReplFrameIds : ReplRemove(f)
    \/ ReplEvict

(***************************************************************************)
(* DiskScheduler and its worker thread: threads send requests with         *)
(* schedule or a synchronous helper, the worker loop receives and runs     *)
(* them, drop sets the shutdown flag and joins the worker.  drop takes     *)
(* &mut self: it runs when no thread is inside a call on the scheduler.    *)
(* Every DiskManager call succeeds here.                                   *)
(***************************************************************************)
Submitters == 1..NumSubmitters
WorkerPages == 1..NumWorkerPages

\* the identity of a request: its thread and its number among the thread's requests
ReqId(request) == <<request.thread, request.seq>>

\* the value a write request carries in its buffer
WriteValue(t, seq) == (t - 1) * MaxRequests + seq

\* DiskScheduler::new: the bounded channel, the flag and the spawned worker
InitWorker ==
    /\ wk_chan = <<>>
    /\ wk_shutdown = FALSE
    /\ wk_pc = "loop"
    /\ wk_sub = [t \in Submitters |-> [pc |-> "idle", sent |-> 0]]
    /\ wk_log = <<>>
    /\ wk_store = [p \in WorkerPages |-> 0]
    /\ wk_signal = {}
    /\ wk_owner = "alive"
    /\ wk_at_drop = {}

\* a send that puts the request ahead of the queued ones
ChannelSendFront(chan, request) == <<request>> \o chan

\* Sender::send on the channel
ChannelSend(chan, request) == Append(chan, request)

\* DiskScheduler::schedule of a request without callback (sync = FALSE), or a
\* synchronous helper up to rx.recv() (sync = TRUE)
Schedule(t, is_write, page_id, sync) ==
    /\ wk_owner = "alive"
    /\ wk_sub[t].pc = "idle"
    /\ wk_sub[t].sent < MaxRequests
    /\ Len(wk_chan) < QueueCapacity
    /\ LET seq == wk_sub[t].sent + 1
       IN wk_chan' = ChannelSend(wk_chan, [thread |-> t, seq |-> seq, is_write |-> is_write,
                                           page_id |-> page_id, sync |-> sync,
                                           val |-> IF is_write THEN WriteValue(t, seq) ELSE 0])
    /\ wk_sub' = [wk_sub EXCEPT ![t] = [pc |-> IF sync THEN "wait" ELSE "idle",
                                        sent |-> @.sent + 1]]
    /\ UNCHANGED <<wk_shutdown, wk_pc, wk_log, wk_store, wk_signal, wk_owner, wk_at_drop>>
    /\ UNCHANGED nonWkVars

\* the synchronous helper from rx.recv(): it returns once the callback was sent
SyncRecv(t) ==
    /\ wk_sub[t].pc = "wait"
    /\ <<t, wk_sub[t].sent>> \in wk_signal
    /\ wk_sub' = [wk_sub EXCEPT ![t].pc = "idle"]
    /\ UNCHANGED <<wk_chan, wk_shutdown, wk_pc, wk_log, wk_store, wk_signal, wk_owner,
                   wk_at_drop>>
    /\ UNCHANGED nonWkVars

\* process_request on the oldest request of the channel: the DiskManager call, then
\* callback.send(success) when the request has a callback
ProcessHead ==
    LET request == Head(wk_chan)
    IN /\ wk_chan' = Tail(wk_chan)
       /\ wk_store' = IF request.is_write
                      THEN [wk_store EXCEPT ![request.page_id] = request.val]
                      ELSE wk_store
       /\ wk_log' = Append(wk_log, IF request.is_write THEN request
                                   ELSE [request EXCEPT !.val = wk_store[request.page_id]])
       /\ wk_signal' = IF request.sync THEN wk_signal \cup {ReqId(request)} ELSE wk_signal

\* the worker at the top of its loop: shutdown.load
WorkerCheck ==
    /\ wk_pc = "loop"
    /\ wk_pc' = IF wk_shutdown THEN "drain" ELSE "recv"
    /\ UNCHANGED <<wk_chan, wk_shutdown, wk_sub, wk_log, wk_store, wk_signal, wk_owner,
                   wk_at_drop>>
    /\ UNCHANGED nonWkVars

\* receiver.recv_timeout returns Ok(request): process_request, back to the loop
WorkerRecv ==
    /\ wk_pc = "recv"
    /\ wk_chan # <<>>
    /\ ProcessHead
    /\ wk_pc' = "loop"
    /\ UNCHANGED <<wk_shutdown, wk_sub, wk_owner, wk_at_drop>>
    /\ UNCHANGED nonWkVars

\* receiver.recv_timeout returns Timeout after 100 ms with no request: back to the loop
WorkerTimeout ==
    /\ wk_pc = "recv"
    /\ wk_chan = <<>>
    /\ wk_pc' = "loop"
    /\ UNCHANGED <<wk_chan, wk_shutdown, wk_sub, wk_log, wk_store, wk_signal, wk_owner,
                   wk_at_drop>>
    /\ UNCHANGED nonWkVars

\* a drain loop that ends at once
DrainEndsAtOnce(chan) == TRUE

\* the drain loop ends when receiver.try_recv() finds no request
DrainEnds(chan) == chan = <<>>

\* the drain loop after the flag was seen: while let Ok(request) = try_recv()
\* process_request; then break, and the thread ends
WorkerDrain ==
    /\ wk_pc = "drain"
    /\ IF DrainEnds(wk_chan)
       THEN /\ wk_pc' = "exited"
            /\ UNCHANGED <<wk_chan, wk_log, wk_store, wk_signal>>
       ELSE /\ ProcessHead
            /\ wk_pc' = "drain"
    /\ UNCHANGED <<wk_shutdown, wk_sub, wk_owner, wk_at_drop>>
    /\ UNCHANGED nonWkVars

\* Drop for DiskScheduler, first statement: shutdown.store(true)
DropScheduler ==
    /\ wk_owner = "alive"
    /\ \A t \in Submitters : wk_sub[t].pc = "idle"
    /\ wk_shutdown' = TRUE
    /\ wk_owner' = "dropping"
    /\ wk_at_drop' = {ReqId(wk_chan[i]) : i \in 1..Len(wk_chan)}
    /\ UNCHANGED <<wk_chan, wk_pc, wk_sub, wk_log, wk_store, wk_signal>>
    /\ UNCHANGED nonWkVars

\* Drop for DiskScheduler: handle.join() returns when the worker thread has ended
JoinWorker ==
    /\ wk_owner = "dropping"
    /\ wk_pc = "exited"
    /\ wk_owner' = "joined"
    /\ UNCHANGED <<wk_chan, wk_shutdown, wk_pc, wk_sub, wk_log, wk_store, wk_signal,
                   wk_at_drop>>
    /\ UNCHANGED nonWkVars

\* the steps of the worker thread
WorkerStep == WorkerCheck \/ WorkerRecv \/ WorkerTimeout \/ WorkerDrain

NextWorker ==
    \/ \E t \in Submitters : \E w, sync \in BOOLEAN : \E p \in WorkerPages :
           Schedule(t, w, p, sync)
    \/ \E t \in Submitters : SyncRecv(t)
    \/ WorkerCheck
    \/ WorkerRecv
    \/ WorkerTimeout
    \/ WorkerDrain
    \/ DropScheduler
    \/ JoinWorker

(***************************************************************************)
(* SlottedPage and TablePage (slotted_page.rs, table_page.rs).  A page is  *)
(* its four header fields and `data`, the bytes of the page by offset; the *)
(* slot array and the tuples are bytes of `data`.  A tuple is a sequence   *)
(* of bytes.                                                               *)
(***************************************************************************)
PageOffsets == 0..(PageSize - 1)

\* u16::to_le_bytes and u16::from_le_bytes
U16ToLe(x) == <<x % BYTE, (x \div BYTE) % BYTE>>
U16FromLe(lo, hi) == lo + BYTE * hi

\* copy_from_slice of `bytes` to data[at..at + len]
WriteBytes(data, at, bytes) ==
    [i \in DOMAIN data |-> IF i >= at /\ i < at + Len(bytes) THEN bytes[i - at + 1] ELSE data[i]]

\* data[start..end].to_vec()
ReadBytes(data, start, end) == [i \in 1..(end - start) |-> data[start + i - 1]]

\* usize::saturating_sub
SaturatingSub(a, b) == IF a >= b THEN a - b ELSE 0

\* SlottedPage::init
SlottedInit(page_id) ==
    [kind |-> "slotted", page_id |-> page_id, num_slots |-> 0,
     free_space_start |-> HEADER_SIZE, free_space_end |-> PageSize,
     data |-> [i \in PageOffsets |-> 0]]

\* TablePage::init: the table header after the slotted header, next_page_id and
\* prev_page_id INVALID_PAGE, lsn INVALID_LSN (0), table_id
TableInit(page_id, table_id) ==
    [SlottedInit(page_id) EXCEPT
        !.kind = "table",
        !.free_space_start = TABLE_HEADER_SIZE,
        !.data = WriteBytes(WriteBytes(@, HEADER_SIZE, [i \in 1..8 |-> BYTE - 1]),
                            HEADER_SIZE + 16, <<table_id % BYTE, 0, 0, 0>>)]

\* free_space
FreeSpace(pg) == SaturatingSub(pg.free_space_end, pg.free_space_start)

\* can_insert without the room for a slot entry
CanInsertNoSlot(pg, tuple_size) == FreeSpace(pg) >= tuple_size
\* can_insert
CanInsert(pg, tuple_size) == FreeSpace(pg) >= tuple_size + SLOT_SIZE

\* slot_array_base
SlotArrayBase(pg) == SaturatingSub(pg.free_space_start, pg.num_slots * SLOT_SIZE)

\* get_slot: Some(entry) as <<entry>>, None as <<>>
GetSlot(pg, slot_id) ==
    IF slot_id >= pg.num_slots THEN <<>>
    ELSE LET slot_offset == SlotArrayBase(pg) + slot_id * SLOT_SIZE
         IN <<[offset |-> U16FromLe(pg.data[slot_offset], pg.data[slot_offset + 1]),
               length |-> U16FromLe(pg.data[slot_offset + 2], pg.data[slot_offset + 3])]>>

\* set_slot with SlotEntry::new(offset, length)
SetSlot(pg, slot_id, offset, length) ==
    [pg EXCEPT !.data = WriteBytes(@, SlotArrayBase(pg) + slot_id * SLOT_SIZE,
                                   U16ToLe(offset) \o U16ToLe(length))]

\* SlotEntry::is_empty of the entry of a slot below num_slots
SlotIsEmpty(pg, slot_id) == GetSlot(pg, slot_id)[1].length = 0

EmptySlots(pg) == {i \in 0..(pg.num_slots - 1) : SlotIsEmpty(pg, i)}

\* find_or_create_slot: the page afterwards, the slot and is_new_slot
FindOrCreateSlot(pg) ==
    IF EmptySlots(pg) # {}
    THEN [page |-> pg, slot_id |-> Min(EmptySlots(pg)), is_new_slot |-> FALSE]
    ELSE [page |-> [pg EXCEPT !.num_slots = (@ + 1) % WORD], slot_id |-> pg.num_slots,
          is_new_slot |-> TRUE]

\* insert_tuple once the slot is found
PlaceTuple(found, tuple) ==
    LET grown == IF found.is_new_slot
                 THEN [found.page EXCEPT !.free_space_start = @ + SLOT_SIZE]
                 ELSE found.page
        tuple_offset == grown.free_space_end - Len(tuple)
    IN [page |-> [SetSlot([grown EXCEPT !.data = WriteBytes(@, tuple_offset, tuple)],
                          found.slot_id, tuple_offset, Len(tuple))
                     EXCEPT !.free_space_end = tuple_offset],
        status |-> "Ok", slot_id |-> found.slot_id, out |-> <<>>]

\* what a call on the page returns without a change of the page
PageErr(pg, status) == [page |-> pg, status |-> status, slot_id |-> 0, out |-> <<>>]

\* insert_tuple
InsertTuple(pg, tuple) ==
    IF ~CanInsert(pg, Len(tuple)) THEN PageErr(pg, "PageOverflow")
    ELSE PlaceTuple(FindOrCreateSlot(pg), tuple)

\* get_tuple
GetTuple(pg, slot_id) ==
    IF GetSlot(pg, slot_id) = <<>> THEN PageErr(pg, "InvalidSlotId")
    ELSE IF SlotIsEmpty(pg, slot_id) THEN PageErr(pg, "EmptySlot")
    ELSE LET entry == GetSlot(pg, slot_id)[1]
         IN [page |-> pg, status |-> "Ok", slot_id |-> slot_id,
             out |-> ReadBytes(pg.data, entry.offset, entry.offset + entry.length)]

\* delete_tuple
DeleteTuple(pg, slot_id) ==
    IF GetSlot(pg, slot_id) = <<>> THEN PageErr(pg, "InvalidSlotId")
    ELSE [page |-> SetSlot(pg, slot_id, 0, 0), status |-> "Ok", slot_id |-> slot_id,
          out |-> <<>>]

\* update_tuple
UpdateTuple(pg, slot_id, new_data) ==
    IF GetSlot(pg, slot_id) = <<>> THEN PageErr(pg, "InvalidSlotId")
    ELSE IF SlotIsEmpty(pg, slot_id) THEN PageErr(pg, "EmptySlot")
    ELSE LET entry == GetSlot(pg, slot_id)[1]
             written == [pg EXCEPT !.data = WriteBytes(@, entry.offset, new_data)]
         IN IF Len(new_data) > entry.length THEN PageErr(pg, "PageOverflow")
            ELSE [page |-> IF Len(new_data) < entry.length
                           THEN SetSlot(written, slot_id, entry.offset, Len(new_data))
                           ELSE written,
                  status |-> "Ok", slot_id |-> slot_id, out |-> <<>>]

\* compact, first loop: the live tuples with their slots, from slot i on
RECURSIVE CollectTuples(_, _)
CollectTuples(pg, i) ==
    IF i >= pg.num_slots THEN <<>>
    ELSE (IF GetTuple(pg, i).status = "Ok" THEN <<<<i, GetTuple(pg, i).out>>>> ELSE <<>>)
         \o CollectTuples(pg, i + 1)

\* compact, second loop: every slot from i on is set to SlotEntry::empty()
RECURSIVE ClearSlots(_, _)
ClearSlots(pg, i) ==
    IF i >= pg.num_slots THEN pg ELSE ClearSlots(SetSlot(pg, i, 0, 0), i + 1)

\* compact, third loop: the tuples are written back against the end of the page
RECURSIVE Reinsert(_, _)
Reinsert(pg, tuples) ==
    IF tuples = <<>> THEN pg
    ELSE LET slot_id == Head(tuples)[1]
             tuple == Head(tuples)[2]
             tuple_offset == pg.free_space_end - Len(tuple)
         IN Reinsert([SetSlot([pg EXCEPT !.data = WriteBytes(@, tuple_offset, tuple)],
                              slot_id, tuple_offset, Len(tuple))
                         EXCEPT !.free_space_end = tuple_offset],
                     Tail(tuples))

\* compact
Compact(pg) ==
    IF pg.num_slots = 0 THEN pg
    ELSE Reinsert(ClearSlots([pg EXCEPT !.free_space_end = PageSize], 0),
                  CollectTuples(pg, 0))

(***************************************************************************)
(* One slotted or table page under a sequence of calls.                    *)
(***************************************************************************)
\* the tuples the callers pass: `len` bytes that depend on tag and position
TupleOf(len, tag) == [i \in 1..len |-> (16 * tag + i) % BYTE]
TupleLens == {0, 1, 2, MaxTupleLen}
Tuples == {TupleOf(len, tag) : len \in TupleLens, tag \in 1..MaxTag}
NoPageRet == [op |-> "none", status |-> "none", slot_id |-> 0, out |-> <<>>, arg |-> <<>>]

InitSlotted ==
    /\ sp_page = [SlottedInit(0) EXCEPT !.kind = "none"]
    /\ sp_prev = [SlottedInit(0) EXCEPT !.kind = "none"]
    /\ sp_ret = NoPageRet
    /\ sp_live = EmptyMap
    /\ sp_gone = {}
    /\ sp_ops = 0

\* a call on the page has returned r: the page, the result and the history afterwards
PageReturned(op, arg, r) ==
    /\ sp_page' = r.page
    /\ sp_prev' = sp_page
    /\ sp_ret' = [op |-> op, status |-> r.status, slot_id |-> r.slot_id, out |-> r.out,
                  arg |-> arg]
    /\ sp_ops' = sp_ops + 1
    /\ sp_live' = IF r.status # "Ok" \/ op = "compact" THEN sp_live
                  ELSE IF op = "insert_tuple" THEN MapPut(sp_live, r.slot_id, arg)
                  ELSE MapDel(sp_live, r.slot_id)
    /\ sp_gone' = IF r.status # "Ok" \/ op \in {"compact", "update_tuple"} THEN sp_gone
                  ELSE IF op = "insert_tuple" THEN sp_gone \ {r.slot_id}
                  ELSE sp_gone \cup {r.slot_id}
    /\ UNCHANGED <<dp_page, dp_prev, dp_ret, dp_ops>>
    /\ UNCHANGED nonPgVars

PageReady == sp_page.kind # "none" /\ sp_ops < MaxPageOps

\* SlottedPage::init(page_id) or TablePage::init(page_id, table_id) on a buffer
PageInit(kind) ==
    /\ sp_page.kind = "none"
    /\ sp_page' = IF kind = "table" THEN TableInit(1, 1) ELSE SlottedInit(1)
    /\ sp_prev' = sp_page'
    /\ UNCHANGED <<sp_ret, sp_live, sp_gone, sp_ops, dp_page, dp_prev, dp_ret, dp_ops>>
    /\ UNCHANGED nonPgVars

PageInsert(tuple) == PageReady /\ PageReturned("insert_tuple", tuple, InsertTuple(sp_page, tuple))

PageDelete(slot_id) ==
    PageReady /\ PageReturned("delete_tuple", <<>>, DeleteTuple(sp_page, slot_id))

PageUpdate(slot_id, new_data) ==
    PageReady /\ PageReturned("update_tuple", new_data, UpdateTuple(sp_page, slot_id, new_data))

PageCompact ==
    PageReady /\ PageReturned("compact", <<>>,
                              [page |-> Compact(sp_page), status |-> "Ok", slot_id |-> 0,
                               out |-> <<>>])

SlotIds == 0..MaxSlot

NextSlotted ==
    \/ \E kind \in {"slotted", "table"} : PageInit(kind)
    \/ \E tuple \in Tuples : PageInsert(tuple)
    \/ \E slot_id \in SlotIds : PageDelete(slot_id)
    \/ \E slot_id \in SlotIds : \E new_data \in Tuples : PageUpdate(slot_id, new_data)
    \/ PageCompact

(***************************************************************************)
(* DirectoryPage (directory_page.rs): table_count and the bytes of the     *)
(* page, which hold the entry array from TABLE_ENTRIES_OFFSET on.          *)
(***************************************************************************)
\* MAX_TABLES
MaxTables == (PageSize - TABLE_ENTRIES_OFFSET) \div TABLE_ENTRY_SIZE

\* u32::to_le_bytes and u32::from_le_bytes
U32ToLe(x) ==
    <<x % BYTE, (x \div BYTE) % BYTE, (x \div (BYTE * BYTE)) % BYTE,
      (x \div (BYTE * BYTE * BYTE)) % BYTE>>
U32FromLe(data, at) ==
    data[at] + BYTE * data[at + 1] + BYTE * BYTE * data[at + 2]
        + BYTE * BYTE * BYTE * data[at + 3]

\* DirectoryPage::init
DirectoryInit == [table_count |-> 0, data |-> [i \in PageOffsets |-> 0]]

TableEntryOffset(index) == TABLE_ENTRIES_OFFSET + index * TABLE_ENTRY_SIZE

\* get_table_entry: Some(entry) as <<entry>>, None as <<>>
GetTableEntry(dir, index) ==
    IF index >= dir.table_count THEN <<>>
    ELSE <<[table_id |-> U32FromLe(dir.data, TableEntryOffset(index)),
            first_page_id |-> U32FromLe(dir.data, TableEntryOffset(index) + 4),
            page_count |-> U32FromLe(dir.data, TableEntryOffset(index) + 8)]>>

SetTableEntry(dir, index, entry) ==
    [dir EXCEPT !.data = WriteBytes(@, TableEntryOffset(index),
                                    U32ToLe(entry.table_id) \o U32ToLe(entry.first_page_id)
                                        \o U32ToLe(entry.page_count))]

\* the indexes whose entry has table_id; the loops stop at the first
IndexesOf(dir, table_id) ==
    {i \in 0..(dir.table_count - 1) : GetTableEntry(dir, i)[1].table_id = table_id}

\* find_table: Some(entry) as <<entry>>, None as <<>>
FindTable(dir, table_id) ==
    IF IndexesOf(dir, table_id) = {} THEN <<>>
    ELSE GetTableEntry(dir, Min(IndexesOf(dir, table_id)))

\* register_table
RegisterTable(dir, table_id, first_page_id) ==
    IF FindTable(dir, table_id) # <<>> THEN [page |-> dir, status |-> "TableAlreadyExists"]
    ELSE IF dir.table_count >= MaxTables THEN [page |-> dir, status |-> "DirectoryFull"]
    ELSE [page |-> [SetTableEntry(dir, dir.table_count,
                                  [table_id |-> table_id, first_page_id |-> first_page_id,
                                   page_count |-> 1])
                       EXCEPT !.table_count = dir.table_count + 1],
          status |-> "Ok"]

\* update_table_page_count on the first entry of table_id, at index
UpdateEntry(dir, index, page_count) ==
    SetTableEntry(dir, index, [GetTableEntry(dir, index)[1] EXCEPT !.page_count = page_count])

\* update_table_page_count
UpdateTablePageCount(dir, table_id, page_count) ==
    IF IndexesOf(dir, table_id) = {} THEN [page |-> dir, status |-> "TableNotFound"]
    ELSE [page |-> UpdateEntry(dir, Min(IndexesOf(dir, table_id)), page_count),
          status |-> "Ok"]

\* remove_table without the move of the last entry
RemoveEntryNoSwap(dir, i) == [dir EXCEPT !.table_count = dir.table_count - 1]

\* remove_table of the first entry of table_id, at index i: the last entry takes its
\* place
RemoveEntry(dir, i) ==
    [(IF i < dir.table_count - 1
      THEN SetTableEntry(dir, i, GetTableEntry(dir, dir.table_count - 1)[1])
      ELSE dir) EXCEPT !.table_count = dir.table_count - 1]

\* remove_table
RemoveTable(dir, table_id) ==
    IF IndexesOf(dir, table_id) = {} THEN [page |-> dir, status |-> "TableNotFound"]
    ELSE [page |-> RemoveEntry(dir, Min(IndexesOf(dir, table_id))), status |-> "Ok"]

(***************************************************************************)
(* One directory page under a sequence of calls.                           *)
(***************************************************************************)
DirTableIds == 1..(MaxTables + 1)
FirstPageOf(table_id) == BYTE + table_id
PageCounts == {2, BYTE + 1}

InitDirectory ==
    /\ dp_page = DirectoryInit
    /\ dp_prev = DirectoryInit
    /\ dp_ret = [op |-> "none", status |-> "none", table_id |-> 0]
    /\ dp_ops = 0

InitPg == InitSlotted /\ InitDirectory

\* a call on the directory page has returned r
DirReturned(op, table_id, r) ==
    /\ dp_page' = r.page
    /\ dp_prev' = dp_page
    /\ dp_ret' = [op |-> op, status |-> r.status, table_id |-> table_id]
    /\ dp_ops' = dp_ops + 1
    /\ UNCHANGED <<sp_page, sp_prev, sp_ret, sp_live, sp_gone, sp_ops>>
    /\ UNCHANGED nonPgVars

DirReady == dp_ops < MaxDirOps

DirRegister(table_id) ==
    DirReady /\ DirReturned("register_table", table_id,
                RegisterTable(dp_page, table_id, FirstPageOf(table_id)))

DirUpdate(table_id, page_count) ==
    DirReady /\ DirReturned("update_table_page_count", table_id,
                UpdateTablePageCount(dp_page, table_id, page_count))

DirRemove(table_id) ==
    DirReady /\ DirReturned("remove_table", table_id, RemoveTable(dp_page, table_id))

NextDirectory ==
    \/ \E table_id \in DirTableIds : DirRegister(table_id)
    \/ \E table_id \in DirTableIds : \E page_count \in PageCounts : DirUpdate(table_id, page_count)
    \/ \E table_id \in DirTableIds : DirRemove(table_id)

(***************************************************************************)
(* The locks of the buffer pool: the page-table mutex and the frames'      *)
(* rw-locks, as the operations of BufferPoolManager and the page guards    *)
(* take and release them.  One action per point at which a thread can wait *)
(***************************************************************************)
LockThreads == 1..NumLockThreads
LockFrameIds == 0..(LockPoolSize - 1)

LkIdle == [pc |-> "idle", op |-> "none", page |-> 0, frame |-> 0, write |-> FALSE,
           todo |-> <<>>, gi |-> 0]

\* FrameHeader::new; repl is the frame's entry in the replacer: "none" (not tracked),
\* "pinned" (tracked, not evictable) or "evictable"
LkNewFrame == [page_id |-> 0, pin_count |-> 0, is_dirty |-> FALSE, repl |-> "none"]

InitLocks ==
    /\ lk_mutex = 0
    /\ lk_table = EmptyMap
    /\ lk_free = [i \in 1..LockPoolSize |-> i - 1]
    /\ lk_frames = [f \in LockFrameIds |-> LkNewFrame]
    /\ lk_guards = [t \in LockThreads |-> <<>>]
    /\ lk_th = [t \in LockThreads |-> LkIdle]
    /\ lk_num_pages = LockInitPages
    /\ lk_calls = 0

\* FrameHeader::data as held by the live guards
LkHolds(u, f, write_only) == \E i \in 1..Len(lk_guards[u]) :
    /\ lk_guards[u][i].frame = f
    /\ lk_guards[u][i].locked
    /\ write_only => lk_guards[u][i].write
\* data.read() / data.write() return
LkCanRead(f) == \A u \in LockThreads : ~LkHolds(u, f, TRUE)
LkCanWrite(f) == \A u \in LockThreads : ~LkHolds(u, f, FALSE)

LkHeldPages(t) == {lk_guards[t][i].page_id : i \in 1..Len(lk_guards[t])}

\* FrameHeader::reset
LkReset(fr) == [fr EXCEPT !.page_id = 0, !.pin_count = 0, !.is_dirty = FALSE]
\* LruKReplacer::record_access then set_evictable(frame_id, evictable)
LkTrack(fr, evictable) == [fr EXCEPT !.repl = IF evictable THEN "evictable" ELSE "pinned"]
\* the release callback's frm.unpin() and set_evictable(fid, true) when the count
\* reaches zero: unpin gives None at zero
LkUnpin(fr) ==
    IF fr.pin_count = 0 THEN fr
    ELSE [fr EXCEPT !.pin_count = @ - 1,
                    !.repl = IF fr.pin_count = 1 /\ fr.repl # "none" THEN "evictable" ELSE @]

LkGoto(t, rec) == lk_th' = [lk_th EXCEPT ![t] = rec]
LkFinish(t) == lk_th' = [lk_th EXCEPT ![t] = LkIdle]

\* a thread calls checked_read_page / checked_write_page (on a page it holds no guard
\* for), flush_page, delete_page, flush_all_pages or new_page; the calls that take no
\* page or no access mode are made with one value of it
LkCall(t, op, p, w) ==
    /\ lk_th[t].pc = "idle"
    /\ lk_calls < MaxLockCalls
    /\ 1 <= p /\ p < lk_num_pages
    /\ p \notin LkHeldPages(t)
    /\ op # "fetch" => ~w
    /\ op \in {"flush_all", "new_page"} => p = 1
    /\ op = "fetch" => Len(lk_guards[t]) < MaxHeld
    /\ op = "flush_all" =>
           \A q \in LkHeldPages(t) : q \in DOMAIN lk_table => ~lk_frames[lk_table[q]].is_dirty
    /\ op = "new_page" => lk_num_pages < LockMaxPages
    /\ LkGoto(t, [LkIdle EXCEPT !.pc = IF op = "new_page" THEN "gff" ELSE op, !.op = op,
                                !.page = p, !.write = w])
    /\ UNCHANGED <<lk_mutex, lk_table, lk_free, lk_frames, lk_guards, lk_num_pages>>
    /\ lk_calls' = lk_calls + 1
    /\ UNCHANGED nonLkVars

\* fetch_page under the page-table mutex: a hit pins the frame and returns it, a miss
\* goes on to get_free_frame
LkFetchLookup(t) ==
    /\ lk_th[t].pc = "fetch"
    /\ lk_mutex = 0
    /\ IF lk_th[t].page \in DOMAIN lk_table
       THEN /\ lk_frames' = [lk_frames EXCEPT ![lk_table[lk_th[t].page]] =
                                [LkTrack(@, FALSE) EXCEPT !.pin_count = @ + 1]]
            /\ LkGoto(t, [lk_th[t] EXCEPT !.pc = "take_lock",
                                          !.frame = lk_table[lk_th[t].page]])
       ELSE /\ LkGoto(t, [lk_th[t] EXCEPT !.pc = "gff"])
            /\ UNCHANGED lk_frames
    /\ UNCHANGED <<lk_mutex, lk_table, lk_free, lk_guards, lk_num_pages>>
    /\ UNCHANGED <<lk_calls, nonLkVars>>

\* where the caller of get_free_frame goes on with the frame
LkWithFrame(t, f) ==
    [lk_th[t] EXCEPT !.frame = f,
                     !.pc = IF lk_th[t].op = "new_page" THEN "new_reset" ELSE "load_copy"]

LkEvictable == {f \in LockFrameIds : lk_frames[f].repl = "evictable"}

\* get_free_frame up to its first wait: free_list.pop_front(), or replacer.evict()
\* (the victim is any evictable frame: the access history is not kept here), or
\* Err(BufferPoolFull)
LkGetFreeFrame(t) ==
    /\ lk_th[t].pc = "gff"
    /\ IF lk_free # <<>>
       THEN /\ lk_free' = Tail(lk_free)
            /\ LkGoto(t, LkWithFrame(t, Head(lk_free)))
            /\ UNCHANGED lk_frames
       ELSE IF LkEvictable = {}
            THEN /\ LkFinish(t)
                 /\ UNCHANGED <<lk_free, lk_frames>>
            ELSE \E victim \in LkEvictable :
                    /\ lk_frames' = [lk_frames EXCEPT ![victim].repl = "none"]
                    /\ LkGoto(t, [lk_th[t] EXCEPT
                                     !.frame = victim,
                                     !.page = lk_frames[victim].page_id,
                                     !.todo = <<lk_th[t].page>>,
                                     !.pc = IF lk_frames[victim].is_dirty
                                            THEN "evict_copy" ELSE "evict_remove"])
                    /\ UNCHANGED lk_free
    /\ UNCHANGED <<lk_mutex, lk_table, lk_guards, lk_num_pages>>
    /\ UNCHANGED <<lk_calls, nonLkVars>>

\* get_free_frame: frame.copy_to(&mut data) of a dirty victim
LkEvictCopy(t) ==
    /\ lk_th[t].pc = "evict_copy"
    /\ LkCanRead(lk_th[t].frame)
    /\ LkGoto(t, [lk_th[t] EXCEPT !.pc = "evict_remove"])
    /\ UNCHANGED <<lk_mutex, lk_table, lk_free, lk_frames, lk_guards, lk_num_pages>>
    /\ UNCHANGED <<lk_calls, nonLkVars>>

\* get_free_frame: page_table.lock().remove(&old_page_id)
LkEvictRemove(t) ==
    /\ lk_th[t].pc = "evict_remove"
    /\ lk_mutex = 0
    /\ lk_table' = MapDel(lk_table, lk_th[t].page)
    /\ LkGoto(t, [lk_th[t] EXCEPT !.pc = "evict_reset"])
    /\ UNCHANGED <<lk_mutex, lk_free, lk_frames, lk_guards, lk_num_pages>>
    /\ UNCHANGED <<lk_calls, nonLkVars>>

\* get_free_frame: frame.reset(), whose last statement is data.write().fill(0)
LkEvictReset(t) ==
    /\ lk_th[t].pc = "evict_reset"
    /\ LkCanWrite(lk_th[t].frame)
    /\ lk_frames' = [lk_frames EXCEPT ![lk_th[t].frame] = LkReset(@)]
    /\ LkGoto(t, [LkWithFrame(t, lk_th[t].frame) EXCEPT !.page = lk_th[t].todo[1],
                                                        !.todo = <<>>])
    /\ UNCHANGED <<lk_mutex, lk_table, lk_free, lk_guards, lk_num_pages>>
    /\ UNCHANGED <<lk_calls, nonLkVars>>

\* fetch_page, miss: set_page_id; copy_from (data.write()); set_dirty(false); pin
LkLoadCopy(t) ==
    /\ lk_th[t].pc = "load_copy"
    /\ LkCanWrite(lk_th[t].frame)
    /\ lk_frames' = [lk_frames EXCEPT ![lk_th[t].frame] =
                        [@ EXCEPT !.page_id = lk_th[t].page, !.is_dirty = FALSE,
                                  !.pin_count = @ + 1]]
    /\ LkGoto(t, [lk_th[t] EXCEPT !.pc = "load_insert"])
    /\ UNCHANGED <<lk_mutex, lk_table, lk_free, lk_guards, lk_num_pages>>
    /\ UNCHANGED <<lk_calls, nonLkVars>>

\* fetch_page, miss: page_table.lock().insert; record_access; set_evictable(false)
LkLoadInsert(t) ==
    /\ lk_th[t].pc = "load_insert"
    /\ lk_mutex = 0
    /\ lk_table' = MapPut(lk_table, lk_th[t].page, lk_th[t].frame)
    /\ lk_frames' = [lk_frames EXCEPT ![lk_th[t].frame] = LkTrack(@, FALSE)]
    /\ LkGoto(t, [lk_th[t] EXCEPT !.pc = "take_lock"])
    /\ UNCHANGED <<lk_mutex, lk_free, lk_guards, lk_num_pages>>
    /\ UNCHANGED <<lk_calls, nonLkVars>>

\* ReadPageGuard::new / WritePageGuard::new: frame.data.read() / frame.data.write()
LkTakeLock(t) ==
    /\ lk_th[t].pc = "take_lock"
    /\ IF lk_th[t].write THEN LkCanWrite(lk_th[t].frame) ELSE LkCanRead(lk_th[t].frame)
    /\ lk_guards' = [lk_guards EXCEPT ![t] = Append(@,
                        [page_id |-> lk_th[t].page, frame |-> lk_th[t].frame,
                         write |-> lk_th[t].write, locked |-> TRUE, is_dirty |-> FALSE])]
    /\ LkFinish(t)
    /\ UNCHANGED <<lk_mutex, lk_table, lk_free, lk_frames, lk_num_pages>>
    /\ UNCHANGED <<lk_calls, nonLkVars>>

\* WritePageGuard::data_mut
LkDataMut(t, i) ==
    /\ lk_th[t].pc = "idle"
    /\ i \in 1..Len(lk_guards[t])
    /\ lk_guards[t][i].write
    /\ ~lk_guards[t][i].is_dirty
    /\ lk_guards' = [lk_guards EXCEPT ![t][i].is_dirty = TRUE]
    /\ UNCHANGED <<lk_mutex, lk_table, lk_free, lk_frames, lk_th, lk_num_pages>>
    /\ UNCHANGED <<lk_calls, nonLkVars>>

\* new_page: allocate_page; frame.reset(); set_page_id
LkNewReset(t) ==
    /\ lk_th[t].pc = "new_reset"
    /\ LkCanWrite(lk_th[t].frame)
    /\ lk_frames' = [lk_frames EXCEPT ![lk_th[t].frame] =
                        [LkReset(@) EXCEPT !.page_id = lk_num_pages]]
    /\ lk_num_pages' = lk_num_pages + 1
    /\ LkGoto(t, [lk_th[t] EXCEPT !.pc = "new_insert", !.page = lk_num_pages])
    /\ UNCHANGED <<lk_mutex, lk_table, lk_free, lk_guards>>
    /\ UNCHANGED <<lk_calls, nonLkVars>>

\* new_page: page_table.lock().insert; record_access; set_evictable(frame_id, true)
LkNewInsert(t) ==
    /\ lk_th[t].pc = "new_insert"
    /\ lk_mutex = 0
    /\ lk_table' = MapPut(lk_table, lk_th[t].page, lk_th[t].frame)
    /\ lk_frames' = [lk_frames EXCEPT ![lk_th[t].frame] = LkTrack(@, TRUE)]
    /\ LkFinish(t)
    /\ UNCHANGED <<lk_mutex, lk_free, lk_guards, lk_num_pages>>
    /\ UNCHANGED <<lk_calls, nonLkVars>>

\* Drop for ReadPageGuard: drop_impl runs, the read lock is still held.  Drop for
\* WritePageGuard: data_guard.take() releases the write lock, then drop_impl runs
LkDropGuard(t, i) ==
    /\ lk_th[t].pc = "idle"
    /\ i \in 1..Len(lk_guards[t])
    /\ lk_guards' = [lk_guards EXCEPT ![t][i].locked = ~lk_guards[t][i].write]
    /\ LkGoto(t, [LkIdle EXCEPT !.pc = "drop_callback", !.op = "drop", !.gi = i,
                                !.page = lk_guards[t][i].page_id])
    /\ UNCHANGED <<lk_mutex, lk_table, lk_free, lk_frames, lk_num_pages>>
    /\ UNCHANGED <<lk_calls, nonLkVars>>

\* the release callback, under the page-table mutex; the guard's fields are dropped
\* when it returns
LkDropCallback(t) ==
    /\ lk_th[t].pc = "drop_callback"
    /\ lk_mutex = 0
    /\ lk_frames' = IF lk_th[t].page \in DOMAIN lk_table
                    THEN [lk_frames EXCEPT ![lk_table[lk_th[t].page]] =
                             LkUnpin([@ EXCEPT !.is_dirty =
                                         @ \/ lk_guards[t][lk_th[t].gi].is_dirty])]
                    ELSE lk_frames
    /\ lk_guards' = [lk_guards EXCEPT ![t] = RemoveAt(@, lk_th[t].gi)]
    /\ LkFinish(t)
    /\ UNCHANGED <<lk_mutex, lk_table, lk_free, lk_num_pages>>
    /\ UNCHANGED <<lk_calls, nonLkVars>>

\* flush_page: page_table.lock(), held to the end of the call; Ok(false) for a page
\* that is not resident
LkFlushLookup(t) ==
    /\ lk_th[t].pc = "flush_page"
    /\ lk_mutex = 0
    /\ IF lk_th[t].page \in DOMAIN lk_table
       THEN /\ lk_mutex' = t
            /\ LkGoto(t, [lk_th[t] EXCEPT !.pc = "flush_copy",
                                          !.frame = lk_table[lk_th[t].page]])
       ELSE /\ LkFinish(t)
            /\ UNCHANGED lk_mutex
    /\ UNCHANGED <<lk_table, lk_free, lk_frames, lk_guards, lk_num_pages>>
    /\ UNCHANGED <<lk_calls, nonLkVars>>

\* flush_page: frame.copy_to (data.read()); schedule_write_sync; set_dirty(false);
\* the page-table mutex is released on return
LkFlushCopy(t) ==
    /\ lk_th[t].pc = "flush_copy"
    /\ LkCanRead(lk_th[t].frame)
    /\ lk_frames' = [lk_frames EXCEPT ![lk_th[t].frame].is_dirty = FALSE]
    /\ lk_mutex' = 0
    /\ LkFinish(t)
    /\ UNCHANGED <<lk_table, lk_free, lk_guards, lk_num_pages>>
    /\ UNCHANGED <<lk_calls, nonLkVars>>

LkDirtyPages == {p \in DOMAIN lk_table : lk_frames[lk_table[p]].is_dirty}

\* the frames of the dirty pages, sorted by page id
LkDirtyFrames == [i \in 1..Cardinality(LkDirtyPages) |->
                     lk_table[SortByPageId(LkDirtyPages)[i]]]

\* flush_all_pages: page_table.lock(), held to the end of the call; Ok(()) when no
\* page is dirty
LkFlushAllLookup(t) ==
    /\ lk_th[t].pc = "flush_all"
    /\ lk_mutex = 0
    /\ IF LkDirtyPages = {}
       THEN /\ LkFinish(t)
            /\ UNCHANGED lk_mutex
       ELSE /\ lk_mutex' = t
            /\ LkGoto(t, [lk_th[t] EXCEPT !.pc = "flush_all_copy", !.todo = LkDirtyFrames])
    /\ UNCHANGED <<lk_table, lk_free, lk_frames, lk_guards, lk_num_pages>>
    /\ UNCHANGED <<lk_calls, nonLkVars>>

\* flush_all_pages: the next frame.copy_to (data.read()), its write and
\* set_dirty(false); the page-table mutex is released after the last one
LkFlushAllCopy(t) ==
    /\ lk_th[t].pc = "flush_all_copy"
    /\ LkCanRead(Head(lk_th[t].todo))
    /\ lk_frames' = [lk_frames EXCEPT ![Head(lk_th[t].todo)].is_dirty = FALSE]
    /\ IF Len(lk_th[t].todo) = 1
       THEN lk_mutex' = 0 /\ LkFinish(t)
       ELSE /\ LkGoto(t, [lk_th[t] EXCEPT !.todo = Tail(@)])
            /\ UNCHANGED lk_mutex
    /\ UNCHANGED <<lk_table, lk_free, lk_guards, lk_num_pages>>
    /\ UNCHANGED <<lk_calls, nonLkVars>>

\* delete_page: page_table.lock(), held to the end of the call; Ok(false) for a page
\* that is not resident, Err(PageStillPinned) for a pinned one (put back)
LkDeleteLookup(t) ==
    /\ lk_th[t].pc = "delete_page"
    /\ lk_mutex = 0
    /\ IF lk_th[t].page \in DOMAIN lk_table
          /\ lk_frames[lk_table[lk_th[t].page]].pin_count = 0
       THEN /\ lk_mutex' = t
            /\ lk_table' = MapDel(lk_table, lk_th[t].page)
            /\ LkGoto(t, [lk_th[t] EXCEPT !.pc = "delete_reset",
                                          !.frame = lk_table[lk_th[t].page]])
       ELSE /\ LkFinish(t)
            /\ UNCHANGED <<lk_mutex, lk_table>>
    /\ UNCHANGED <<lk_free, lk_frames, lk_guards, lk_num_pages>>
    /\ UNCHANGED <<lk_calls, nonLkVars>>

\* delete_page: frame.reset() (data.write()); replacer.remove; free_list.push_back;
\* deallocate_page; the page-table mutex is released on return
LkDeleteReset(t) ==
    /\ lk_th[t].pc = "delete_reset"
    /\ LkCanWrite(lk_th[t].frame)
    /\ lk_frames' = [lk_frames EXCEPT ![lk_th[t].frame] = [LkReset(@) EXCEPT !.repl = "none"]]
    /\ lk_free' = Append(lk_free, lk_th[t].frame)
    /\ lk_mutex' = 0
    /\ LkFinish(t)
    /\ UNCHANGED <<lk_table, lk_guards, lk_num_pages>>
    /\ UNCHANGED <<lk_calls, nonLkVars>>

LockOps == {"fetch", "flush_page", "flush_all", "delete_page", "new_page"}

NextLocks ==
    \E t \in LockThreads :
        \/ \E op \in LockOps : \E p \in 1..(LockMaxPages - 1) : \E w \in BOOLEAN :
              LkCall(t, op, p, w)
        \/ LkFetchLookup(t)
        \/ LkGetFreeFrame(t)
        \/ LkEvictCopy(t)
        \/ LkEvictRemove(t)
        \/ LkEvictReset(t)
        \/ LkLoadCopy(t)
        \/ LkLoadInsert(t)
        \/ LkTakeLock(t)
        \/ \E i \in 1..MaxHeld : LkDataMut(t, i)
        \/ LkNewReset(t)
        \/ LkNewInsert(t)
        \/ \E i \in 1..MaxHeld : LkDropGuard(t, i)
        \/ LkDropCallback(t)
        \/ LkFlushLookup(t)
        \/ LkFlushCopy(t)
        \/ LkFlushAllLookup(t)
        \/ LkFlushAllCopy(t)
        \/ LkDeleteLookup(t)
        \/ LkDeleteReset(t)

(***************************************************************************)
(* Specifications of the buffer pool                                       *)
(***************************************************************************)
\* the steps of the operations that fetch, write and release pages
PageStep(t) ==
    \/ \E p \in PageIds : \E w \in BOOLEAN : FetchPage(t, p, w)
    \/ FetchLoad(t) \/ EvictReset(t) \/ TakeLock(t)
    \/ NewPage(t) \/ NewPageLoad(t)
    \/ \E i \in 1..MaxGuards : DropReadGuard(t, i)
    \/ \E i \in 1..MaxGuards : DropWriteGuard(t, i)
    \/ DropWriteCallback(t)

\* one caller: page traffic, prefetches and deletions
Next ==
    \/ PageStep(1)
    \/ GetFreeFrame(1) \/ PrefetchLoad(1)
    \/ \E p \in PageIds : \E n \in 1..MaxPrefetch : PrefetchPages(1, p, n)
    \/ \E p \in PageIds : DeletePage(1, p)

Init == InitPool(InitPages, MaxTimestamp) /\ InitDm /\ InitSched /\ InitRepl /\ InitWorker
    /\ InitTree /\ InitPg /\ InitLocks

Spec == Init /\ [][Next]_vars

\* concurrent callers: page traffic, writes and flushes
NextConc ==
    \E t \in Threads :
        \/ PageStep(t)
        \/ EvictFill(t)
        \/ \E i \in 1..MaxGuards : \E v \in 1..MaxVal : DataMut(t, i, v)
        \/ \E p \in PageIds : FlushPage(t, p)
        \/ FlushAllPages(t)

InitConc == InitPool(ConcPages, ConcTimestamp) /\ InitDm /\ InitSched /\ InitRepl /\ InitWorker
    /\ InitTree /\ InitPg /\ InitLocks

SpecConc == InitConc /\ [][NextConc]_vars

\* one caller on a database whose pages hold different bytes
StoredPages == [p \in PageIds |-> IF p < InitPages THEN p ELSE 0]

InitPrefetch ==
    InitPoolOn(InitPages, PrefetchTimestamp, StoredPages) /\ InitDm /\ InitSched /\ InitRepl
                                                    /\ InitWorker /\ InitTree /\ InitPg /\ InitLocks

SpecPrefetch == InitPrefetch /\ [][Next]_vars

\* the disk manager on a fresh database: allocations, deallocations and reopening
SpecDisk == Init /\ [][NextDisk]_vars

\* the disk scheduler: callers of the synchronous helpers and the worker
SpecSched == Init /\ [][NextSched]_vars

\* the replacer on its own
SpecRepl == Init /\ [][NextRepl]_vars

\* the disk scheduler with its worker thread, from construction to drop
SpecWorker == Init /\ [][NextWorker]_vars

\* the same, where the worker thread keeps running, a caller blocked in rx.recv()
\* wakes up once its callback was sent, and join returns once the worker has ended
SpecWorkerFair ==
    /\ Init /\ [][NextWorker]_vars
    /\ WF_vars(WorkerStep)
    /\ \A t \in Submitters : WF_vars(SyncRecv(t))
    /\ WF_vars(JoinWorker)

\* the B+-tree under the inserts and searches of one handle
SpecTree == Init /\ [][NextTree]_vars

\* the B+-tree under the inserts and range scans of one handle
SpecTreeScan == Init /\ [][NextTreeScan]_vars

\* the B+-tree under the calls of the handles of two threads
SpecTreeConc == Init /\ [][NextTreeConc]_vars

\* a slotted or table page under the calls of one owner
SpecSlotted == Init /\ [][NextSlotted]_vars

\* a directory page under the calls of one owner
SpecDirectory == Init /\ [][NextDirectory]_vars

\* second inserts of a key
SpecTreeDup == Init /\ [][NextTreeDup]_vars

\* the locks of the buffer pool
SpecLocks == Init /\ [][NextLocks]_vars

(***************************************************************************)
(* Properties of the buffer pool                                           *)
(***************************************************************************)
\* no buffer-pool operation is in progress
Quiescent == \A t \in Threads : th[t].pc = "idle"

\* the guards alive on page p, as (thread, index) pairs
GuardsOn(p) == {<<t, i>> \in Threads \X (1..MaxGuards) :
                    i <= Len(guards[t]) /\ guards[t][i].page_id = p}

\* the bytes a new guard on page p would observe
PageContent(p) == IF p \in DOMAIN page_table THEN frames[page_table[p]].data
                  ELSE DiskRead(disk, file_pages, p)

\* C1: at every quiescent point each resident page id is carried by exactly one frame
\* and the page table maps it to that frame: no two frames hold the same valid page
\* id, no frame with a valid page id is missing from the page table
C1_OneFramePerPage ==
    Quiescent =>
        /\ \A f, g \in FrameIds :
              (f # g /\ frames[f].page_id # <<>>) => frames[f].page_id # frames[g].page_id
        /\ \A f \in FrameIds : frames[f].page_id # <<>> =>
              /\ frames[f].page_id[1] \in DOMAIN page_table
              /\ page_table[frames[f].page_id[1]] = f
        /\ \A p \in DOMAIN page_table : frames[page_table[p]].page_id = <<p>>

\* C2: the bytes observed through a guard, and the bytes a new guard on an allocated
\* page would observe, are those left by the most recently released write guard on
\* the page (zeros if none): no released write is lost
C2_GuardsSeeLastWrite ==
    /\ \A t \in Threads : \A i \in 1..Len(guards[t]) :
          (guards[t][i].locked /\ ~guards[t][i].is_dirty) =>
              frames[guards[t][i].frame].data = last_written[guards[t][i].page_id]
    /\ \A p \in PageIds : (Fetchable(p) /\ p \notin BeingWritten) =>
          PageContent(p) = last_written[p]

\* C3: while a guard on a page is alive its frame is not taken as eviction victim,
\* the page stays in the page table and the frame keeps the page's id
C3_PinnedNotEvicted ==
    \A t \in Threads : \A i \in 1..Len(guards[t]) :
        LET g == guards[t][i]
        IN /\ \A u \in Threads :
                 th[u].pc \in {"reset", "fill"} => th[u].victim # g.frame
           /\ g.page_id \in DOMAIN page_table
           /\ frames[g.frame].page_id = <<g.page_id>>

\* C4: the pin count of a resident page is >= 1 while a guard on it is alive; with no
\* operation in progress it equals the number of guards alive on the page, and a
\* page without guards has pin count 0 and an evictable frame
C4_PinCountIsGuardCount ==
    /\ \A p \in DOMAIN page_table :
          GuardsOn(p) # {} => frames[page_table[p]].pin_count >= 1
    /\ Quiescent => \A p \in DOMAIN page_table :
          LET f == page_table[p]
          IN /\ frames[f].pin_count = Cardinality(GuardsOn(p))
             /\ GuardsOn(p) = {} =>
                   (f \in DOMAIN replacer.info /\ replacer.info[f].is_evictable)

\* C5: with no operation in progress the free list and the page table together hold
\* pool_size frames, and no frame is in both
C5_FramesAccounted ==
    Quiescent =>
        /\ Len(free_list) + Cardinality(DOMAIN page_table) = PoolSize
        /\ \A i \in 1..Len(free_list) : \A p \in DOMAIN page_table :
              free_list[i] # page_table[p]

\* C8: when the drop of a write guard completes, the frame the guard was on is dirty
\* if data_mut was called on the guard, and has its dirty flag unchanged if not
C8_DirtyAfterDrop ==
    [][\A t \in Threads :
         (th[t].pc = "drop_cb" /\ th'[t].pc = "idle") =>
            LET g == guards[t][th[t].gi]
            IN IF g.is_dirty THEN frames'[g.frame].is_dirty
               ELSE frames'[g.frame].is_dirty = frames[g.frame].is_dirty]_vars

\* C9: when flush_all_pages has returned Ok, every frame of the pool that holds a page
\* has is_dirty = FALSE (no write guard can complete its release while it runs: the
\* release callback needs the page-table mutex flush_all_pages holds)
C9_FlushAllLeavesClean ==
    [][(\E t \in Threads : FlushAllPages(t)) =>
          \A f \in FrameIds : frames'[f].page_id # <<>> => ~frames'[f].is_dirty]_vars

\* C10: a page flushed by flush_page or flush_all_pages and not written since has, on
\* disk, the bytes last written through a write guard, inside the file's page count,
\* which is what a DiskManager opened on the same file reads and counts
C10_FlushedIsDurable ==
    \A p \in flushed :
        /\ p < file_pages
        /\ DiskRead(disk, file_pages, p) = last_written[p]

(***************************************************************************)
(* Properties of the disk scheduler and the disk manager                   *)
(***************************************************************************)
\* C6: when the disk-manager call of a request failed, the synchronous helper and the
\* buffer-pool operation that issued it return the error, and a flush clears no
\* dirty flag
C6_ErrorsPropagate ==
    \A c \in 1..NumCallers :
        (sq_call[c].result # "none" /\ ~sq_call[c].dm_ok) =>
            sq_call[c].result = "err" /\ sq_call[c].cleared = {}

\* C7: page 0 of file 0 holds the directory page, no allocation returns offset 0, and
\* DiskManager::new on the same file succeeds
C7_DirectoryPreserved ==
    /\ dm_file[1] = "dir"
    /\ 0 \notin dm_ret
    /\ dm_status # "invalid"

FramesOf(p) == {f \in FrameIds : frames[f].page_id = <<p>>}

\* frame f is in the free list
InFreeList(f) == \E i \in 1..Len(free_list) : free_list[i] = f

\* C12: delete_page(p) on a resident page with pin count > 0 returns PageStillPinned and
\* leaves page table, frames (pin count, dirty flag, buffer), replacer and free list as
\* they were; on a resident unpinned page it returns Ok(true) and afterwards p is not in
\* the page table and its frame is in the free list and untracked by the replacer; on a
\* page that is not resident it returns Ok(false) and changes nothing
C12_DeletePageResults ==
    [][bp_ret'.op = "delete_page" =>
        LET p == bp_ret'.page
        IN IF p \notin DOMAIN page_table
           THEN /\ bp_ret'.res = "Ok(false)"
                /\ UNCHANGED <<page_table, frames, replacer, free_list, disk, num_pages>>
           ELSE IF frames[page_table[p]].pin_count > 0
           THEN /\ bp_ret'.res = "PageStillPinned"
                /\ UNCHANGED <<page_table, frames, replacer, free_list>>
           ELSE /\ bp_ret'.res = "Ok(true)"
                /\ p \notin DOMAIN page_table'
                /\ \E i \in 1..Len(free_list') : free_list'[i] = page_table[p]
                /\ page_table[p] \notin DOMAIN replacer'.info]_vars

\* C12 witness: delete_page has just returned Ok(true) for a page that had been written
\* to disk, while another page is still resident
C12_Witness ==
    /\ bp_ret.op = "delete_page" /\ bp_ret.res = "Ok(true)"
    /\ bp_ret.page \notin DOMAIN page_table
    /\ DOMAIN page_table # {}
    /\ free_list # <<>>

\* C13: after new_page returned p, page p is resident in exactly one frame, whose buffer
\* is all zero, is_dirty false and pin count 0 and which is evictable in the replacer;
\* and p differs from every id an earlier new_page returned
C13_NewPageResult ==
    /\ [](bp_ret.op = "new_page" =>
            LET p == bp_ret.page
            IN /\ p \in DOMAIN page_table
               /\ FramesOf(p) = {page_table[p]}
               /\ frames[page_table[p]].data = 0
               /\ ~frames[page_table[p]].is_dirty
               /\ frames[page_table[p]].pin_count = 0
               /\ page_table[p] \in DOMAIN replacer.info
               /\ replacer.info[page_table[p]].is_evictable)
    /\ [][bp_ret'.op = "new_page" /\ new_ids' # new_ids => bp_ret'.page \notin new_ids]_vars
(***************************************************************************)
(* Properties of the replacer                                              *)
(***************************************************************************)
\* LruKReplacer::size
ReplacerSize(rep) == rep.num_evictable

\* the tracked frames of rep whose evictable flag is set
EvictableFrames(rep) == {f \in DOMAIN rep.info : rep.info[f].is_evictable}

\* the reference LRU-K choice on the state rep, with accesses in recorded order: <<>>
\* when no frame is evictable; among evictable frames with fewer than k accesses the
\* one whose earliest recorded timestamp is smallest (any of them when none has a
\* recorded access); else the one whose k-th most recent timestamp is smallest
RefVictims(rep) ==
    LET ev == EvictableFrames(rep)
        cold == {f \in ev : Len(rep.info[f].history) < LRUK_K}
        seen == {f \in cold : rep.info[f].history # <<>>}
        kth(f) == rep.info[f].history[Len(rep.info[f].history) - LRUK_K + 1]
    IN IF ev = {} THEN {<<>>}
       ELSE IF seen # {} THEN
           {<<f>> : f \in {g \in seen : \A h \in seen :
                               rep.info[g].history[1] <= rep.info[h].history[1]}}
       ELSE IF cold # {} THEN {<<f>> : f \in cold}
       ELSE {<<f>> : f \in {g \in ev : \A h \in ev : kth(g) <= kth(h)}}

C15_SizeCountsEvictable ==
    /\ [](ReplacerSize(rp) = Cardinality(EvictableFrames(rp)))
    /\ [][(\/ rp_ret'.op = "evict" /\ rp_ret'.res # <<>>
           \/ \E f \in EvictableFrames(rp) : ReplRemove(f))
          => ReplacerSize(rp') = ReplacerSize(rp) - 1]_vars

\* C15 witness: after an evict that returned a frame, size() is 1 with two frames
\* tracked, one of them not evictable
C15_Witness ==
    /\ rp_ret.op = "evict" /\ rp_ret.res # <<>>
    /\ ReplacerSize(rp) = 1
    /\ Cardinality(DOMAIN rp.info) = 2

\* a step that starts tracking frame f, and one that stops tracking it
EntersTracking(f) == f \notin DOMAIN rp.info /\ f \in DOMAIN rp'.info
LeavesTracking(f) == f \in DOMAIN rp.info /\ f \notin DOMAIN rp'.info

\* set_evictable leaves the set of tracked frames and every history as they are
OnlyTogglesFlag ==
    /\ DOMAIN rp'.info = DOMAIN rp.info
    /\ \A g \in DOMAIN rp.info : rp'.info[g].history = rp.info[g].history

\* a frame stops being tracked only through remove or as the frame evict returns
LeavesByRemoveOrEvict(f) ==
    LeavesTracking(f) => \/ rp_ret'.op = "remove"
                         \/ rp_ret'.op = "evict" /\ rp_ret'.res = <<f>>

\* C16: a frame becomes tracked only through record_access and is then non-evictable;
\* set_evictable changes nothing but the flag of a tracked frame and has no effect on an
\* untracked frame; a frame becomes untracked only through remove or as evict's result
C16_StateMachine ==
    [][\A f \in ReplFrameIds :
        /\ EntersTracking(f) => rp_ret'.op = "record_access" /\ ~rp'.info[f].is_evictable
        /\ rp_ret'.op = "set_evictable" => OnlyTogglesFlag
        /\ LeavesByRemoveOrEvict(f)]_vars

\* C16 as the code has it: a frame becomes tracked through record_access, and is then
\* non-evictable, or through set_evictable(f, true), and is then evictable with an
\* empty history; set_evictable changes no history and untracks no frame, and
\* set_evictable(f, false) has no effect on an untracked frame; a frame becomes
\* untracked only through remove or as evict's result
C16_StateMachineAmended ==
    [][\A f \in ReplFrameIds :
        /\ EntersTracking(f) =>
              \/ rp_ret'.op = "record_access" /\ ~rp'.info[f].is_evictable
              \/ /\ rp_ret'.op = "set_evictable"
                 /\ rp'.info[f] = [history |-> <<>>, is_evictable |-> TRUE]
                 /\ \A g \in DOMAIN rp.info : rp'.info[g] = rp.info[g]
        /\ rp_ret'.op = "set_evictable" =>
              /\ DOMAIN rp.info \subseteq DOMAIN rp'.info
              /\ \A g \in DOMAIN rp.info : rp'.info[g].history = rp.info[g].history
        /\ (f \notin DOMAIN rp.info /\ ReplSetEvictable(f, FALSE)) => rp' = rp
        /\ LeavesByRemoveOrEvict(f)]_vars

\* C16 witness: set_evictable(f, true) has just made an untracked frame tracked and
\* evictable with no recorded access, next to a frame that record_access made tracked
C16_Witness ==
    /\ rp_ret.op = "set_evictable"
    /\ \E f \in DOMAIN rp.info : rp.info[f] = [history |-> <<>>, is_evictable |-> TRUE]
    /\ \E f \in DOMAIN rp.info : rp.info[f].history # <<>> /\ ~rp.info[f].is_evictable

\* the largest timestamp of a non-empty history: the frame's last access
LastAccess(history) == CHOOSE x \in {history[i] : i \in 1..Len(history)} :
                            \A i \in 1..Len(history) : history[i] <= x

\* frames a and b have recorded equally many accesses, at least one, and every access
\* of a has a later timestamp than the last access of b
AccessedLater(ha, hb) ==
    /\ Len(ha) = Len(hb) /\ Len(hb) > 0
    /\ \A i \in 1..Len(ha) : ha[i] > LastAccess(hb)

\* C17: evict never returns a frame A while a frame B is tracked and evictable, has as
\* many recorded accesses as A, and was last accessed before every access of A
C17_Monotonic ==
    [][(rp_ret'.op = "evict" /\ rp_ret'.res # <<>>) =>
        ~\E b \in EvictableFrames(rp) \ {rp_ret'.res[1]} :
            AccessedLater(rp.info[rp_ret'.res[1]].history, rp.info[b].history)]_vars

\* C17 witness: evict has returned a frame with k recorded accesses, all of them
\* earlier than those of an evictable frame with k accesses that stays tracked
C17_Witness ==
    /\ rp_ret.op = "evict" /\ rp_ret.res # <<>>
    /\ Len(rp_ret.hist) = LRUK_K
    /\ \E a \in EvictableFrames(rp) : AccessedLater(rp.info[a].history, rp_ret.hist)

(***************************************************************************)
(* Properties of the disk scheduler's callers                              *)
(***************************************************************************)
\* C20: no caller waits for a synchronous scheduler request while it holds the
\* page-table mutex
C20_NoIoUnderPageTableLock ==
    \A c \in 1..NumCallers : sq_call[c].pc = "recv" => ~HoldsPageTableMutex(c)

(***************************************************************************)
(* Properties of the disk scheduler's worker                               *)
(***************************************************************************)
\* the requests the worker has run
Executed == {ReqId(wk_log[i]) : i \in 1..Len(wk_log)}

\* the requests schedule has accepted
Accepted == {<<t, k>> \in Submitters \X (1..MaxRequests) : k <= wk_sub[t].sent}

\* the writes of page p run before position j of the log
WritesBefore(p, j) == {i \in 1..(j - 1) : wk_log[i].is_write /\ wk_log[i].page_id = p}

\* C18: the worker runs the requests of one thread in the order the thread sent them,
\* whatever the other threads send meanwhile, and a read run after writes of its page
\* observes the last of them: so a read sent after a write of the same page by the
\* same thread observes that write or a write run after it
C18_PerThreadFifo ==
    /\ \A i, j \in 1..Len(wk_log) :
          (i < j /\ wk_log[i].thread = wk_log[j].thread) => wk_log[i].seq < wk_log[j].seq
    /\ \A i \in 1..Len(wk_chan) : \A j \in 1..Len(wk_log) :
          wk_chan[i].thread = wk_log[j].thread => wk_log[j].seq < wk_chan[i].seq
    /\ \A j \in 1..Len(wk_log) :
          (~wk_log[j].is_write /\ WritesBefore(wk_log[j].page_id, j) # {}) =>
              \E i \in WritesBefore(wk_log[j].page_id, j) :
                  /\ \A h \in WritesBefore(wk_log[j].page_id, j) : h <= i
                  /\ wk_log[j].val = wk_log[i].val

\* C18 witness: a thread's write of a page, another thread's write of the same page and
\* the first thread's read of it have run in that order, and the read saw the second
C18_Witness ==
    /\ Len(wk_log) >= 3
    /\ wk_log[1].is_write /\ wk_log[2].is_write /\ ~wk_log[3].is_write
    /\ wk_log[1].thread = wk_log[3].thread /\ wk_log[2].thread # wk_log[1].thread
    /\ wk_log[1].page_id = wk_log[3].page_id /\ wk_log[2].page_id = wk_log[3].page_id
    /\ wk_log[3].val = wk_log[2].val

\* C19: no request is run twice, the callback of every request run that has one is
\* sent, and when drop has joined the worker the worker has ended with every
\* accepted request run; every accepted request is run in the end, every caller
\* blocked in a synchronous helper returns, and a drop that began ends
C19_AllExecuted ==
    /\ [](/\ \A i, j \in 1..Len(wk_log) : i # j => ReqId(wk_log[i]) # ReqId(wk_log[j])
          /\ Executed \subseteq Accepted
          /\ wk_signal = {ReqId(wk_log[i]) : i \in {j \in 1..Len(wk_log) : wk_log[j].sync}}
          /\ wk_owner = "joined" => (wk_pc = "exited" /\ wk_chan = <<>> /\ Accepted = Executed))
    /\ \A id \in Submitters \X (1..MaxRequests) : (id \in Accepted) ~> (id \in Executed)
    /\ \A t \in Submitters : (wk_sub[t].pc = "wait") ~> (wk_sub[t].pc = "idle")
    /\ (wk_owner = "dropping") ~> (wk_owner = "joined")

\* C19 witness: drop has joined the worker, and requests that were in the channel when
\* the flag was set have been run
C19_Witness ==
    /\ wk_owner = "joined"
    /\ wk_at_drop # {}
    /\ wk_at_drop \subseteq Executed

(***************************************************************************)
(* Properties of the locking discipline                                    *)
(***************************************************************************)
\* the step in which thread t runs the release callback of its guard i: the callback
\* takes the page-table mutex and, under it, the replacer's mutexes
RunsReleaseCallback(t, i) ==
    \/ DropReadGuard(t, i)
    \/ DropWriteCallback(t) /\ th[t].gi = i

\* C21: a thread takes the page-table, free-list and replacer locks before a frame's
\* rw-lock and never while it holds one: when the release callback of a dropped guard
\* takes the page-table mutex, the guard's lock on the frame has been released
C21_LockOrder ==
    [][\A t \in Threads : \A i \in 1..MaxGuards :
        (i <= Len(guards[t]) /\ RunsReleaseCallback(t, i)) => ~guards[t][i].locked]_vars

(***************************************************************************)
(* Properties of prefetching and flushing                                  *)
(***************************************************************************)
\* the step is taken by thread t inside prefetch_pages, called by the user or by
\* maybe_prefetch
PrefetchStep(t) == th[t].sub = "prefetch" \/ th'[t].sub = "prefetch"

\* C28: prefetch_pages takes its frames from the free list only: no step of it removes a
\* resident page from the page table, and the frame of every page that is resident is
\* left as it was
C28_PrefetchUsesFreeFrames ==
    [][\A t \in Threads : PrefetchStep(t) =>
        \A p \in DOMAIN page_table :
            /\ p \in DOMAIN page_table'
            /\ page_table'[p] = page_table[p]
            /\ frames'[page_table[p]] = frames[page_table[p]]]_vars

\* the prefetch_pages call that returned in the last step loaded page p
Prefetched(p) == call_io.op = "prefetch" /\ \E i \in 1..Len(call_io.pages) : call_io.pages[i] = p

\* C29: when prefetch_pages returns, every page it loaded is in the page table, in a
\* frame that holds the page's bytes on disk, clean, unpinned and evictable; a call that
\* loaded pages issued exactly one disk read, which spans them; and a guard acquisition
\* on a resident page is a hit: it reads nothing from disk and leaves the page table alone
C29_PrefetchResult ==
    /\ [](\A p \in PageIds : Prefetched(p) =>
            /\ p \in DOMAIN page_table
            /\ LET fr == frames[page_table[p]]
               IN /\ fr.page_id = <<p>>
                  /\ fr.data = (IF p < file_pages THEN disk[p] ELSE 0)
                  /\ ~fr.is_dirty
                  /\ fr.pin_count = 0
            /\ page_table[p] \in DOMAIN replacer.info
            /\ replacer.info[page_table[p]].is_evictable)
    /\ [](call_io.op = "prefetch" /\ call_io.pages # <<>> =>
            /\ Len(call_io.io) = 1
            /\ \A i \in 1..Len(call_io.pages) :
                   /\ call_io.io[1][1] <= call_io.pages[i]
                   /\ call_io.pages[i] < call_io.io[1][1] + call_io.io[1][2])
    /\ [][\A t \in Threads : \A p \in DOMAIN page_table :
            (th[t].pc = "idle" /\ th'[t].op \in {"read", "write"} /\ th'[t].page = p) =>
                /\ th'[t].pc = "take_lock"
                /\ th'[t].frame = page_table[p]
                /\ page_table' = page_table
                /\ disk' = disk
                /\ frames'[page_table[p]].data = frames[page_table[p]].data]_vars

\* C29 witness: a prefetch has loaded two pages that hold different bytes, with one
\* disk read
C29_Witness ==
    /\ call_io.op = "prefetch"
    /\ Len(call_io.pages) = 2
    /\ call_io.io = << <<call_io.pages[1], 2>> >>
    /\ frames[page_table[call_io.pages[1]]].data # frames[page_table[call_io.pages[2]]].data

\* the maximal runs of consecutive page ids in the set D, as <<first page, length>>
MaximalRuns(D) ==
    {r \in D \X (1..Cardinality(D)) :
        /\ \A p \in r[1]..(r[1] + r[2] - 1) : p \in D
        /\ r[1] - 1 \notin D
        /\ r[1] + r[2] \notin D}

\* C30: flush_all_pages issues one write per maximal run of consecutive ids among the
\* dirty pages of the page table, a single-page write for a run of one page and a bulk
\* write otherwise, and nothing else; called again right after, it issues no write
C30_FlushCoalesces ==
    [][call_io'.op = "flush_all" =>
        /\ {call_io'.io[i] : i \in 1..Len(call_io'.io)} = MaximalRuns(DirtyPages)
        /\ Len(call_io'.io) = Cardinality(MaximalRuns(DirtyPages))
        /\ DirtyPages' = {}
        /\ (call_io.op = "flush_all" => call_io'.io = <<>>)]_vars

\* C30 witness: a flush_all_pages wrote two dirty pages of consecutive ids in one bulk
\* write
C30_Witness ==
    /\ call_io.op = "flush_all"
    /\ Len(call_io.pages) = 2
    /\ call_io.io = << <<call_io.pages[1], 2>> >>

(***************************************************************************)
(* Properties of the extent allocator                                      *)
(***************************************************************************)
\* the extents that cover the pages of S
ExtentsCovering(S) == {p \div EXTENT_SIZE : p \in S}

\* the extents recorded for a table
RecordedFor(table_id) ==
    IF table_id \in DOMAIN extent_allocator.table_extents
    THEN {extent_allocator.table_extents[table_id][i] :
              i \in 1..Len(extent_allocator.table_extents[table_id])}
    ELSE {}

\* C26: in every extent the allocator knows, allocated_count is the number of bits set
\* in allocated_bitmap and at most EXTENT_SIZE, and a page is allocated (covered when
\* the allocator was built or returned by it, and not deallocated since) exactly when
\* its bit is set in the bitmap of its extent
C26_BitmapMatchesCount ==
    /\ \A e \in DOMAIN extent_allocator.extent_info :
        LET info == extent_allocator.extent_info[e]
        IN /\ info.allocated_count = Cardinality(info.allocated_bitmap)
           /\ info.allocated_count <= EXTENT_SIZE
           /\ \A i \in 0..(EXTENT_SIZE - 1) :
                  (e * EXTENT_SIZE + i \in ea_live) <=> (i \in info.allocated_bitmap)
    /\ ExtentsCovering(ea_live) \subseteq DOMAIN extent_allocator.extent_info

\* C26 witness: an allocator rebuilt by from_existing holds a partly filled extent, a
\* page of a full extent has been deallocated, and another extent is full
C26_Witness ==
    /\ ea_returned = [table_id \in 1..NumTables |-> {}]
    /\ \E e \in DOMAIN extent_allocator.extent_info :
           extent_allocator.extent_info[e].allocated_bitmap = 1..(EXTENT_SIZE - 1)
    /\ \E e \in DOMAIN extent_allocator.extent_info :
           extent_allocator.extent_info[e].allocated_count = EXTENT_SIZE

\* C27: the extents that cover the pages the allocator returned to a table are the
\* extents recorded for the table, and no extent is recorded for two tables: pages
\* returned to different tables never share an extent
C27_TablesOwnExtents ==
    /\ \A table_id \in 1..NumTables : ExtentsCovering(ea_returned[table_id]) = RecordedFor(table_id)
    /\ \A t1, t2 \in 1..NumTables :
           t1 # t2 => /\ RecordedFor(t1) \cap RecordedFor(t2) = {}
                      /\ ExtentsCovering(ea_returned[t1]) \cap ExtentsCovering(ea_returned[t2]) = {}

\* C27 witness: two tables have allocated two pages each, from one extent each
C27_Witness ==
    /\ ea_returned[1] = {0, 1}
    /\ ea_returned[2] = {EXTENT_SIZE, EXTENT_SIZE + 1}
    /\ RecordedFor(1) = {0}
    /\ RecordedFor(2) = {1}
(***************************************************************************)
(* Properties of the B+-tree                                               *)
(***************************************************************************)
\* the index has been built and no call is under way
TreeIdle == bt_pool.num_pages > 1 /\ \A h \in Handles : bt_h[h].pc = "idle"

\* what search(key) is to return when the keys of `inserted` are in the tree
Expected(inserted, key) == IF key \in inserted THEN <<ValueOf(key)>> ELSE <<>>

\* the pairs of `inserted` in start_key..end_key, in ascending key order
RECURSIVE ExpectedScan(_, _, _)
ExpectedScan(inserted, start_key, end_key) ==
    IF start_key > end_key THEN <<>>
    ELSE (IF start_key \in inserted THEN <<<<start_key, ValueOf(start_key)>>>> ELSE <<>>)
         \o ExpectedScan(inserted, start_key + 1, end_key)

\* C22: when every insert called so far has returned Ok, a search returns Some(v) with
\* the value inserted for the key if the key has been inserted, and None if it has not
C22_SearchFindsInserted ==
    (~bt_failed /\ bt_ret.op = "search") =>
        bt_ret.status = "Ok" /\ bt_ret.out = Expected(bt_ret.known, bt_ret.key)

\* C23: when every insert called so far has returned Ok, range_scan(start_key, end_key)
\* returns exactly the inserted pairs with start_key <= key <= end_key, each once, in
\* ascending key order, and the empty list when no inserted key lies in the range
C23_RangeScanExact ==
    (~bt_failed /\ bt_ret.op = "range_scan") =>
        /\ bt_ret.status = "Ok"
        /\ bt_ret.out = ExpectedScan(bt_ret.known, bt_ret.key, bt_ret.hi)

\* the node of page_id as the pool serves it: from its frame, or from the file
TreeView(page_id) ==
    IF page_id \in DOMAIN bt_pool.page_table
    THEN bt_pool.frames[bt_pool.page_table[page_id]].data
    ELSE ReadImage(bt_pool, page_id)

\* the keys of a node, in the order of their slots
KeysOf(node) == [i \in 1..node.num_keys |-> GetKey(node, i - 1)]

StrictlyAscending(keys) == \A i \in 1..(Len(keys) - 1) : keys[i] < keys[i + 1]

\* the nodes under page_id with their depths; a descent longer than `fuel` gives depth -1
RECURSIVE Subtree(_, _, _)
Subtree(page_id, depth, fuel) ==
    IF fuel = 0 THEN {<<page_id, -1>>}
    ELSE LET node == TreeView(page_id)
         IN IF IsLeaf(node) THEN {<<page_id, depth>>}
            ELSE {<<page_id, depth>>} \cup
                 UNION {Subtree(GetChild(node, i), depth + 1, fuel - 1) : i \in 0..node.num_keys}

\* the leaf the leftmost children lead to
RECURSIVE LeftmostLeaf(_, _)
LeftmostLeaf(page_id, fuel) ==
    IF fuel = 0 \/ IsLeaf(TreeView(page_id)) THEN page_id
    ELSE LeftmostLeaf(GetChild(TreeView(page_id), 0), fuel - 1)

\* the leaves that iterating next pointers from page_id visits, in at most `fuel` steps
RECURSIVE LeafChain(_, _)
LeafChain(page_id, fuel) ==
    LET next == PageOpt(TreeView(page_id).next_page_id)
    IN IF fuel = 0 \/ next = <<>> THEN <<page_id>>
       ELSE <<page_id>> \o LeafChain(next[1], fuel - 1)

\* the keys of the leaves of a chain, one leaf after the other
RECURSIVE ChainKeys(_)
ChainKeys(chain) ==
    IF chain = <<>> THEN <<>> ELSE KeysOf(TreeView(Head(chain))) \o ChainKeys(Tail(chain))

\* the tree of handle 1
TreeNodes == Subtree(bt_h[1].root_page_id, 0, MaxKey + 2)
TreeLeaves == {x \in TreeNodes : IsLeaf(TreeView(x[1]))}
TreeChain == LeafChain(LeftmostLeaf(bt_h[1].root_page_id, MaxKey + 2), MaxKey + 2)

\* C24: after every completed insert call, every node has strictly ascending keys and
\* at most TreeOrder keys, all leaves are at the same depth, and the next pointers from
\* the leftmost leaf visit every leaf exactly once, in ascending key order
C24_TreeShape ==
    TreeIdle =>
        /\ \A x \in TreeNodes :
               /\ StrictlyAscending(KeysOf(TreeView(x[1])))
               /\ TreeView(x[1]).num_keys <= TreeOrder
        /\ \A x, y \in TreeLeaves : x[2] = y[2] /\ x[2] >= 0
        /\ \A i, j \in 1..Len(TreeChain) : i # j => TreeChain[i] # TreeChain[j]
        /\ {TreeChain[i] : i \in 1..Len(TreeChain)} = {x[1] : x \in TreeLeaves}
        /\ StrictlyAscending(ChainKeys(TreeChain))

\* the pages of the file that the tree has allocated for its nodes
NodePages == 1..(bt_pool.num_pages - 1)

\* every search that has returned found each key whose insert had returned before the
\* search was called
SearchesSeeCompletedInserts ==
    (bt_ret.op = "search" /\ bt_ret.key \in bt_ret.known) =>
        bt_ret.status = "Ok" /\ bt_ret.out = <<ValueOf(bt_ret.key)>>

\* no node holds more keys than the order, or keys out of order
NodesIntact ==
    \A page_id \in NodePages :
        /\ TreeView(page_id).num_keys <= TreeOrder
        /\ StrictlyAscending(KeysOf(TreeView(page_id)))

\* C25: with inserts and searches of several handles on one tree interleaved, no node
\* is corrupted, and every search returns the inserted value of each key whose insert
\* had returned before the search was called
C25_ConcurrentSearchSound == NodesIntact /\ SearchesSeeCompletedInserts

(***************************************************************************)
(* Properties of the slotted page                                          *)
(***************************************************************************)
\* C31: a slot insert_tuple returned holds exactly the tuple inserted until the slot
\* is deleted or updated, whatever inserts, deletes of other slots and compact calls
\* follow, and a deleted slot returns EmptySlot until an insert reuses it
C31_TupleStaysAtSlot ==
    /\ \A slot_id \in DOMAIN sp_live :
           /\ GetTuple(sp_page, slot_id).status = "Ok"
           /\ GetTuple(sp_page, slot_id).out = sp_live[slot_id]
    /\ \A slot_id \in sp_gone : GetTuple(sp_page, slot_id).status = "EmptySlot"

\* the slots that hold a tuple, and the bytes of the page a slot's tuple occupies
LiveSlots(pg) == {i \in 0..(pg.num_slots - 1) : ~SlotIsEmpty(pg, i)}
TupleBytes(pg, slot_id) ==
    LET entry == GetSlot(pg, slot_id)[1] IN entry.offset..(entry.offset + entry.length - 1)
SlotArrayBytes(pg) == SlotArrayBase(pg)..(pg.free_space_start - 1)

\* C32: after every call, failed ones included, free_space_end >= free_space_start,
\* every live tuple lies in [free_space_end, PageSize), live tuples do not overlap, the
\* slot array does not overlap a tuple, and an insert_tuple rejected with PageOverflow
\* had free space < length + SLOT_SIZE and left the page unchanged
C32_PageLayout ==
    /\ sp_page.free_space_end >= sp_page.free_space_start
    /\ \A i \in LiveSlots(sp_page) :
           /\ TupleBytes(sp_page, i) \subseteq sp_page.free_space_end..(PageSize - 1)
           /\ TupleBytes(sp_page, i) \cap SlotArrayBytes(sp_page) = {}
           /\ \A j \in LiveSlots(sp_page) :
                  i # j => TupleBytes(sp_page, i) \cap TupleBytes(sp_page, j) = {}
    /\ (sp_ret.op = "insert_tuple" /\ sp_ret.status = "PageOverflow") =>
           /\ sp_page = sp_prev
           /\ FreeSpace(sp_prev) < Len(sp_ret.arg) + SLOT_SIZE
    /\ (sp_ret.op = "insert_tuple" /\ sp_ret.status = "Ok") =>
           FreeSpace(sp_prev) >= Len(sp_ret.arg) + SLOT_SIZE

(***************************************************************************)
(* Properties of the directory page                                        *)
(***************************************************************************)
\* the table ids of the entry array, in the order of the array
EntryIds(dir) == [i \in 1..dir.table_count |-> GetTableEntry(dir, i - 1)[1].table_id]

\* the tables other than table_id are found as before the call
OthersUnchanged(table_id) ==
    \A other \in DirTableIds \ {table_id} : FindTable(dp_page, other) = FindTable(dp_prev, other)

\* C33: table ids of the entry array are pairwise distinct and the array fits the page;
\* register_table returns TableAlreadyExists for a registered id and DirectoryFull for a
\* new id on a full array, remove_table and update_table_page_count return TableNotFound
\* for an absent id, each leaving the page unchanged; remove_table(id) removes exactly
\* that entry, every other table staying findable with the same entry
C33_DirectoryEntries ==
    /\ \A i, j \in 1..dp_page.table_count : i # j => EntryIds(dp_page)[i] # EntryIds(dp_page)[j]
    /\ dp_page.table_count * TABLE_ENTRY_SIZE + TABLE_ENTRIES_OFFSET <= PageSize
    /\ dp_ret.status \notin {"Ok", "none"} => dp_page = dp_prev
    /\ dp_ret.op = "register_table" =>
           dp_ret.status = IF FindTable(dp_prev, dp_ret.table_id) # <<>>
                           THEN "TableAlreadyExists"
                           ELSE IF (dp_prev.table_count + 1) * TABLE_ENTRY_SIZE
                                       + TABLE_ENTRIES_OFFSET > PageSize
                                THEN "DirectoryFull" ELSE "Ok"
    /\ dp_ret.op \in {"remove_table", "update_table_page_count"} =>
           dp_ret.status = IF FindTable(dp_prev, dp_ret.table_id) = <<>>
                           THEN "TableNotFound" ELSE "Ok"
    /\ (dp_ret.op = "remove_table" /\ dp_ret.status = "Ok") =>
           /\ FindTable(dp_page, dp_ret.table_id) = <<>>
           /\ dp_page.table_count = dp_prev.table_count - 1
           /\ OthersUnchanged(dp_ret.table_id)
    /\ dp_ret.op \in {"register_table", "update_table_page_count"} =>
           OthersUnchanged(dp_ret.table_id)

\* an insert_tuple was rejected on a page that holds two tuples or more
C32_Witness ==
    /\ sp_ret.op = "insert_tuple" /\ sp_ret.status = "PageOverflow"
    /\ Cardinality(LiveSlots(sp_page)) >= 2

\* remove_table has removed an entry of a full array that was not the last one
C33_Witness ==
    /\ dp_ret.op = "remove_table" /\ dp_ret.status = "Ok"
    /\ dp_prev.table_count = MaxTables
    /\ GetTableEntry(dp_prev, dp_prev.table_count - 1)[1].table_id # dp_ret.table_id

(***************************************************************************)
(* Properties of the buffer pool's locks                                   *)
(***************************************************************************)
\* the thread is at page_table.lock()
LkNeedsMutex(t) == lk_th[t].pc \in {"fetch", "evict_remove", "load_insert", "new_insert",
                                    "drop_callback", "flush_page", "flush_all", "delete_page"}
\* the thread is at data.read() / data.write() of LkWanted(t)
LkNeedsRead(t) == \/ lk_th[t].pc \in {"evict_copy", "flush_copy", "flush_all_copy"}
                  \/ lk_th[t].pc = "take_lock" /\ ~lk_th[t].write
LkNeedsWrite(t) == \/ lk_th[t].pc \in {"evict_reset", "load_copy", "new_reset", "delete_reset"}
                   \/ lk_th[t].pc = "take_lock" /\ lk_th[t].write
LkWanted(t) == IF lk_th[t].pc = "flush_all_copy" THEN Head(lk_th[t].todo) ELSE lk_th[t].frame

\* t waits for a lock that another thread u holds
LkWaitsFor(t, u) ==
    /\ t # u
    /\ \/ LkNeedsMutex(t) /\ lk_mutex = u
       \/ LkNeedsRead(t) /\ LkHolds(u, LkWanted(t), TRUE)
       \/ LkNeedsWrite(t) /\ LkHolds(u, LkWanted(t), FALSE)

\* every thread of S waits for a lock held by a thread of S
LkDeadlocked(S) == S # {} /\ \A t \in S : \E u \in S : LkWaitsFor(t, u)

\* C34: the buffer pool cannot deadlock: no set of threads, each acquiring guards on
\* pages it holds no guard for, dropping guards and calling new_page, delete_page,
\* flush_page or flush_all_pages, ever wait on each other forever
C34_NoDeadlock == \A S \in SUBSET LockThreads : ~LkDeadlocked(S)

\* C35: no page id is handed out twice while it is still allocated: the page ids a call
\* of allocate_page, allocate_page_for_table or allocate_extent_for_table returns are
\* none of the pages returned before, on this DiskManager or before it was reopened,
\* and not deallocated since
C35_NoPageHandedOutTwice == [][dm_ret' \cap dm_handed = {}]_vars

\* the last SEQUENTIAL_THRESHOLD page ids the tracker recorded are consecutive ascending
LastFetchesConsecutive(recent) ==
    /\ Len(recent) >= SEQUENTIAL_THRESHOLD
    /\ \A i \in (Len(recent) - SEQUENTIAL_THRESHOLD + 2)..Len(recent) :
           recent[i] = recent[i - 1] + 1

\* C36: a fetch that loads a page goes on to prefetch the PREFETCH_LOOKAHEAD pages after
\* it (those of them that are not resident) exactly when the last 3 fetched page ids,
\* its own included, are consecutive ascending
C36_PrefetchWhenSequential ==
    [][\A t \in Threads :
          (th[t].pc = "load" /\ th'[t].pc # "load") =>
              IF LastFetchesConsecutive(recent_accesses')
              THEN \/ th'[t].pc = "gff" /\ th'[t].sub = "prefetch"
                   \/ PagesToFetch(page_table', th[t].page + 1, PREFETCH_LOOKAHEAD) = <<>>
              ELSE ~(th'[t].pc = "gff" /\ th'[t].sub = "prefetch")]_vars

\* the timestamps drawn by the record_access calls that have not pushed yet
PendingTimestamps == {rp_pend[t][2] : t \in {u \in 1..ReplThreads : rp_pend[u] # <<>>}}

\* C37: under any interleaving of record_access calls, every timestamp drawn is fresh
\* (below the counter, held by one call, in no history yet) and each frame's history
\* holds at most k timestamps in strictly ascending order
C37_HistoriesAscending ==
    /\ \A t \in 1..ReplThreads : rp_pend[t] # <<>> =>
           /\ rp_pend[t][2] < rp.ts
           /\ \A u \in 1..ReplThreads :
                  (u # t /\ rp_pend[u] # <<>>) => rp_pend[u][2] # rp_pend[t][2]
           /\ \A f \in DOMAIN rp.info : \A i \in 1..Len(rp.info[f].history) :
                  rp.info[f].history[i] # rp_pend[t][2]
    /\ \A f \in DOMAIN rp.info :
           /\ Len(rp.info[f].history) <= LRUK_K
           /\ \A i \in 2..Len(rp.info[f].history) :
                  rp.info[f].history[i - 1] < rp.info[f].history[i]

\* the slots of an extent whose bit is clear
FreeSlots(info) == (0..(EXTENT_SIZE - 1)) \ info.allocated_bitmap

\* the positions, in the table's list of extents, of the extents with a free slot
OpenPositions(ea, table_id) ==
    {i \in 1..Len(ExtentsOf(ea, table_id)) :
        /\ ExtentsOf(ea, table_id)[i] \in DOMAIN ea.extent_info
        /\ FreeSlots(ea.extent_info[ExtentsOf(ea, table_id)[i]]) # {}}

\* the page the table is due: the lowest free slot of its newest extent that has one,
\* slot 0 of a new extent when it has none
ExpectedPage(ea, table_id) ==
    IF OpenPositions(ea, table_id) = {} THEN ea.next_extent_id * EXTENT_SIZE
    ELSE ExtentsOf(ea, table_id)[Max(OpenPositions(ea, table_id))] * EXTENT_SIZE
         + Min(FreeSlots(ea.extent_info[ExtentsOf(ea, table_id)[Max(OpenPositions(ea, table_id))]]))

\* C38: allocate_page_for_table(T) returns the lowest free slot of the most recently
\* opened extent of T that is not full, and creates a new extent owned by T, returning
\* its slot 0, only when every extent of T is full
C38_AllocationOrder ==
    [][(extent_allocator' # extent_allocator /\ Cardinality(dm_ret') = 1) =>
          \E table_id \in 1..NumTables :
             /\ dm_ret' = {ExpectedPage(extent_allocator, table_id)}
             /\ IF OpenPositions(extent_allocator, table_id) = {}
                THEN /\ extent_allocator'.next_extent_id = extent_allocator.next_extent_id + 1
                     /\ ExtentsOf(extent_allocator', table_id) =
                            Append(ExtentsOf(extent_allocator, table_id),
                                   extent_allocator.next_extent_id)
                ELSE /\ extent_allocator'.next_extent_id = extent_allocator.next_extent_id
                     /\ ExtentsOf(extent_allocator', table_id) =
                            ExtentsOf(extent_allocator, table_id)]_vars

\* C38 witness: a table's newest extent is full and the page just returned to it is a
\* slot of its older extent that had been freed, below a slot still allocated
C38_Witness ==
    \E table_id \in 1..NumTables : \E page_id \in ea_returned[table_id] :
       /\ dm_ret = {page_id}
       /\ Len(ExtentsOf(extent_allocator, table_id)) = 2
       /\ page_id \div EXTENT_SIZE = ExtentsOf(extent_allocator, table_id)[1]
       /\ FreeSlots(extent_allocator.extent_info[ExtentsOf(extent_allocator, table_id)[2]]) = {}
       /\ page_id % EXTENT_SIZE = 0
       /\ extent_allocator.extent_info[page_id \div EXTENT_SIZE].allocated_bitmap = {0, 1}

\* the pages of the leaves under the root of handle 1
LeafPages == {x[1] : x \in TreeLeaves}

\* C39: after every completed insert the root has no parent, the parent_page_id of
\* every child an internal node lists names that node, and the sibling links of the
\* leaves are mutually inverse: a.next is b exactly when b.prev is a
C39_PointersConsistent ==
    TreeIdle =>
        /\ PageOpt(TreeView(bt_h[1].root_page_id).parent_page_id) = <<>>
        /\ \A x \in TreeNodes :
               IsLeaf(TreeView(x[1])) \/
               \A i \in 0..TreeView(x[1]).num_keys :
                   PageOpt(TreeView(GetChild(TreeView(x[1]), i)).parent_page_id) = <<x[1]>>
        /\ \A a, b \in LeafPages :
               (PageOpt(TreeView(a).next_page_id) = <<b>>) <=>
               (PageOpt(TreeView(b).prev_page_id) = <<a>>)

\* C40: inserting a key that is present never produces two entries for it: no key is
\* twice in the leaves of the tree after a completed insert, and range_scan yields a
\* key at most once
C40_NoDuplicateEntries ==
    /\ TreeIdle => \A i, j \in 1..Len(ChainKeys(TreeChain)) :
                       i # j => ChainKeys(TreeChain)[i] # ChainKeys(TreeChain)[j]
    /\ (bt_ret.op = "range_scan" /\ bt_ret.status = "Ok") =>
           \A i, j \in 1..Len(bt_ret.out) : i # j => bt_ret.out[i][1] # bt_ret.out[j][1]

====
